---- MODULE Spec2Model ----
(***************************************************************************)
(* Model of the text-assembly pipeline of src/utils/fileProcessing.ts:     *)
(* generateLLMOutput (OutputAssembler) and generateChunks (ChunkPacker),   *)
(* as App.tsx invokes them on its file list.                               *)
(*                                                                         *)
(* Paths, names and summaries are sequences of one-character strings, so   *)
(* that lastIndexOf, split, trim, toLowerCase and localeCompare are        *)
(* computed character by character.  Output text is a TLA+ string built    *)
(* with \o, so that lengths (and so token estimates) are the real ones.    *)
(***************************************************************************)
EXTENDS Integers, Sequences, FiniteSets, TLC

\* ------------------------------------------------------------------------
\* Bounds of the model
\* ------------------------------------------------------------------------
\* Longest file list handed to the assembler / packer.
MaxFiles == 3
\* Most '/'-delimited segments in a path handed to isIgnored.
MaxSegments == 3
\* Longest file list handed to buildFileTree.
MaxTreeFiles == 3
\* Longest pattern handed to createPatternMatcher, the examples aside.
MaxPatternLen == 4
\* Most files in one upload.
MaxUpload == 3
\* How many of INITIAL_AGENTS take part.
MaxAgents == 2
\* Most tasks in the swarm's task list.
MaxTasks == 2
\* Most decomposeProject calls in flight.
MaxDecompose == 1

\* ------------------------------------------------------------------------
\* Characters and strings
\* ------------------------------------------------------------------------
UpperChars == <<"A","B","C","D","E","F","G","H","I","J","K","L","M",
                "N","O","P","Q","R","S","T","U","V","W","X","Y","Z">>
LowerChars == <<"a","b","c","d","e","f","g","h","i","j","k","l","m",
                "n","o","p","q","r","s","t","u","v","w","x","y","z">>

\* String.prototype.toLowerCase on one character.
LowerChar(c) ==
    IF \E i \in 1..Len(UpperChars) : UpperChars[i] = c
    THEN LowerChars[CHOOSE i \in 1..Len(UpperChars) : UpperChars[i] = c]
    ELSE c

\* String.prototype.toLowerCase.
ToLowerCase(s) == [i \in 1..Len(s) |-> LowerChar(s[i])]

\* The text of a character sequence.
RECURSIVE Str(_)
Str(s) == IF s = <<>> THEN "" ELSE Head(s) \o Str(Tail(s))

\* Whitespace removed by String.prototype.trim.
IsSpace(c) == c \in {" ", "\n", "\t", "\r"}

\* String.prototype.trim.
RECURSIVE TrimStart(_)
TrimStart(s) == IF s # <<>> /\ IsSpace(Head(s)) THEN TrimStart(Tail(s)) ELSE s
RECURSIVE TrimEnd(_)
TrimEnd(s) ==
    IF s # <<>> /\ IsSpace(s[Len(s)]) THEN TrimEnd(SubSeq(s, 1, Len(s) - 1)) ELSE s
Trim(s) == TrimEnd(TrimStart(s))

\* String.prototype.lastIndexOf(c), 1-based; 0 when c does not occur
\* (JavaScript: 0-based, -1).
LastIndexOf(s, c) ==
    IF \E i \in 1..Len(s) : s[i] = c
    THEN CHOOSE i \in 1..Len(s) : s[i] = c /\ \A j \in (i+1)..Len(s) : s[j] # c
    ELSE 0

\* Collation of the characters that occur in lowercased directory keys:
\* punctuation before digits before letters, as in the root collation that
\* String.prototype.localeCompare applies (the comparison is only ever
\* applied to lowercased keys).
Collation == <<".", "/", "0", "1", "2", "3", "4", "5", "6", "7", "8", "9">>
             \o LowerChars
CollationRank(c) ==
    IF \E i \in 1..Len(Collation) : Collation[i] = c
    THEN CHOOSE i \in 1..Len(Collation) : Collation[i] = c
    ELSE 0

\* a.localeCompare(b): negative, zero or positive.
RECURSIVE LocaleCompare(_, _)
LocaleCompare(a, b) ==
    IF a = <<>> /\ b = <<>> THEN 0
    ELSE IF a = <<>> THEN -1
    ELSE IF b = <<>> THEN 1
    ELSE IF CollationRank(Head(a)) < CollationRank(Head(b)) THEN -1
    ELSE IF CollationRank(Head(a)) > CollationRank(Head(b)) THEN 1
    ELSE LocaleCompare(Tail(a), Tail(b))

\* ------------------------------------------------------------------------
\* Files
\* ------------------------------------------------------------------------
\* The basename of a path: File.name of the file whose relative path it is.
Basename(p) == SubSeq(p, LastIndexOf(p, "/") + 1, Len(p))

\* A file as the read layer delivers it (selected is added by the caller).
RawFile(p, c, s) == [path |-> p, name |-> Basename(p), content |-> c, summary |-> s]

\* The files the inputs are drawn from: two root files, a directory "s" with
\* three files, and a directory "S/l" whose key sorts before "s" by code
\* unit and after it case-insensitively.  <<>> is the absent summary.
FileUniverse ==
    { RawFile(<<"r",".","m","d">>, "ab", <<>>),
      RawFile(<<"a",".","t","s">>, "abcdef", <<" ","S","\n">>),
      RawFile(<<"s","/","b",".","t","s">>, "ab", <<>>),
      RawFile(<<"s","/","c",".","h","t","m","l">>, "ab", <<"T">>),
      RawFile(<<"s","/","e",".","t","s">>, "abcdefgh", <<>>),
      RawFile(<<"S","/","l","/","d",".","c","s","s">>,
              "0123456789012345678901234567890123456789", <<"U"," ">>) }

\* ProcessedFile records: a raw file with its selected flag.
ProcessedFiles ==
    { [path |-> r.path, name |-> r.name, content |-> r.content,
       summary |-> r.summary, selected |-> b] : r \in FileUniverse, b \in BOOLEAN }

\* The files of the application's state: three files of the universe, each
\* before and after its summary is attached.
AppRawFiles ==
    { r \in FileUniverse :
        r.path \in { <<"a",".","t","s">>, <<"s","/","b",".","t","s">>,
                     <<"s","/","c",".","h","t","m","l">> } }
AppProcessedFiles ==
    { [path |-> r.path, name |-> r.name, content |-> r.content,
       summary |-> s, selected |-> b] :
         r \in AppRawFiles, s \in {<<>>, <<" ","S","\n">>, <<"T">>}, b \in BOOLEAN }

\* File lists: paths are unique across the list.
FileLists ==
    UNION { { l \in [1..n -> ProcessedFiles] :
                \A i, j \in 1..n : l[i].path = l[j].path => i = j } : n \in 0..MaxFiles }

\* Token limits offered to the packer (> 0).  The block estimates of
\* FileUniverse are 13 (r.md), 14 (a.ts; 18 with its summary), 14 (s/b.ts),
\* 15 (s/c.html; 20 with its summary), 16 (s/e.ts) and 25 (S/l/d.css; 30
\* with its summary): the limits lie below every block (1), at one block
\* (14), at sums of two blocks (27, 29) and above sums of three (42).
TokenLimits == {1, 14, 27, 29, 42}

\* ------------------------------------------------------------------------
\* Pure functions of fileProcessing.ts
\* ------------------------------------------------------------------------
\* fileName.split('.').pop()?.toLowerCase(): the text after the last '.',
\* the whole name when it has none.
Extension(fileName) ==
    ToLowerCase(SubSeq(fileName, LastIndexOf(fileName, ".") + 1, Len(fileName)))

\* getCommentWrapper: <<prefix, suffix>> of the comment syntax.
getCommentWrapper(fileName) ==
    LET ext == Str(Extension(fileName)) IN
    IF ext \in {"html", "xml", "svg", "vue"} THEN <<"<!--", "-->">>
    ELSE IF ext \in {"css", "scss", "less"} THEN <<"/*", "*/">>
    ELSE IF ext \in {"py", "rb", "sh", "yaml", "yml", "dockerfile"} THEN <<"#", "">>
    ELSE IF ext \in {"js", "jsx", "ts", "tsx", "java", "c", "cpp", "cs", "go",
                     "rs", "swift", "php"} THEN <<"//", "">>
    ELSE IF ext = "sql" THEN <<"--", "">>
    ELSE <<"#", "">>

\* estimateTokens: Math.ceil(text.length / 4).
estimateTokens(text) == (Len(text) + 3) \div 4

\* The map callback of generateLLMOutput: the block of one file, whose
\* content is preceded by the summary line when the file has a (non-empty)
\* summary and includeSummaries is set.
assembleBlock(f, opts) ==
    LET w == getCommentWrapper(f.name)
        start == IF w[1] # "" THEN w[1] \o " SUMMARY: " ELSE "SUMMARY: "
        end == IF w[2] # "" THEN " " \o w[2] ELSE ""
        content == IF f.summary # <<>> /\ opts.includeSummaries
                   THEN start \o Str(Trim(f.summary)) \o end \o "\n" \o f.content
                   ELSE f.content
    IN "\n\n--- FILE START: " \o Str(f.path) \o " ---\n" \o content
           \o "\n--- FILE END: " \o Str(f.path) \o " ---"

\* formatFile with the summary left untrimmed: the two copies of the block
\* format have drifted apart.
formatFile_Untrimmed(f, opts) ==
    LET w == getCommentWrapper(f.name)
        start == IF w[1] # "" THEN w[1] \o " SUMMARY: " ELSE "SUMMARY: "
        end == IF w[2] # "" THEN " " \o w[2] ELSE ""
        content == IF f.summary # <<>> /\ opts.includeSummaries
                   THEN start \o Str(f.summary) \o end \o "\n" \o f.content
                   ELSE f.content
    IN "\n\n--- FILE START: " \o Str(f.path) \o " ---\n" \o content
           \o "\n--- FILE END: " \o Str(f.path) \o " ---"

\* formatFile, the helper of generateChunks: the block of one file.
formatFile(f, opts) ==
    LET w == getCommentWrapper(f.name)
        start == IF w[1] # "" THEN w[1] \o " SUMMARY: " ELSE "SUMMARY: "
        end == IF w[2] # "" THEN " " \o w[2] ELSE ""
        content == IF f.summary # <<>> /\ opts.includeSummaries
                   THEN start \o Str(Trim(f.summary)) \o end \o "\n" \o f.content
                   ELSE f.content
    IN "\n\n--- FILE START: " \o Str(f.path) \o " ---\n" \o content
           \o "\n--- FILE END: " \o Str(f.path) \o " ---"

\* The OutputOptions.
Options == [includeSummaries : BOOLEAN]

\* The two block functions, tabulated over the files and options of the
\* model (@@ makes each table an explicit function, computed once).
AssembledBlocks ==
    [f \in ProcessedFiles \cup AppProcessedFiles, o \in Options |-> assembleBlock(f, o)]
        @@ <<>>
FormattedBlocks ==
    [f \in ProcessedFiles \cup AppProcessedFiles, o \in Options |-> formatFile(f, o)]
        @@ <<>>

\* Array.prototype.join(''): the texts of a sequence, concatenated.
RECURSIVE Join(_)
Join(ss) == IF ss = <<>> THEN "" ELSE Head(ss) \o Join(Tail(ss))

\* files.filter(f => f.selected), as the positions kept, in order.
RECURSIVE SelectedFrom(_, _)
SelectedFrom(fs, i) ==
    IF i > Len(fs) THEN <<>>
    ELSE (IF fs[i].selected THEN <<i>> ELSE <<>>) \o SelectedFrom(fs, i + 1)
\* The filter left out: every position is kept.
SelectedIndices_All(fs) == [i \in 1..Len(fs) |-> i]

SelectedIndices(fs) == SelectedFrom(fs, 1)

\* generateLLMOutput.
generateLLMOutput(fs, opts) ==
    LET sel == SelectedIndices(fs) IN
    Join([k \in 1..Len(sel) |-> AssembledBlocks[fs[sel[k]], opts]])

\* ------------------------------------------------------------------------
\* generateChunks: grouping and ordering
\* ------------------------------------------------------------------------
\* The directory key of a path: the text before the last '/', "." without one.
DirOf(path) ==
    LET lastSlash == LastIndexOf(path, "/") IN
    IF lastSlash = 0 THEN <<".">> ELSE SubSeq(path, 1, lastSlash - 1)

\* dirGroups after one more file: pushed onto the group of its directory,
\* a new group being added at the end (Map insertion order) when needed.
AddToGroups(groups, dir, i) ==
    IF \E g \in 1..Len(groups) : groups[g].dir = dir
    THEN [g \in 1..Len(groups) |->
            IF groups[g].dir = dir
            THEN [groups[g] EXCEPT !.members = Append(@, i)]
            ELSE groups[g]]
    ELSE Append(groups, [dir |-> dir, members |-> <<i>>])

\* dirGroups: the selected files (as positions of fs), grouped by directory.
RECURSIVE GroupFrom(_, _, _)
GroupFrom(fs, sel, groups) ==
    IF sel = <<>> THEN groups
    ELSE GroupFrom(fs, Tail(sel), AddToGroups(groups, DirOf(fs[Head(sel)].path), Head(sel)))
GroupByDirectory(fs) == GroupFrom(fs, SelectedIndices(fs), <<>>)

\* The comparator without toLowerCase, by code unit: an upper-case letter
\* before every lower-case one.
CompareDirs_CaseSensitive(a, b) ==
    IF a = <<".">> THEN -1
    ELSE IF b = <<".">> THEN 1
    ELSE LocaleCompare(a, b)

\* The comparator of the directory sort: negative, zero or positive.
CompareDirs(a, b) ==
    IF a = <<".">> THEN -1
    ELSE IF b = <<".">> THEN 1
    ELSE LocaleCompare(ToLowerCase(a), ToLowerCase(b))

\* One key inserted into a sorted list, behind the keys that do not compare
\* greater (Array.prototype.sort is stable).
RECURSIVE InsertDir(_, _)
InsertDir(sorted, d) ==
    IF sorted = <<>> THEN <<d>>
    ELSE IF CompareDirs(d, Head(sorted)) < 0 THEN <<d>> \o sorted
    ELSE <<Head(sorted)>> \o InsertDir(Tail(sorted), d)

\* The keys left in insertion order: the sort is missing.
SortDirs_Unsorted(groups) == [g \in 1..Len(groups) |-> groups[g].dir]

\* Array.from(dirGroups.keys()).sort(comparator).
RECURSIVE SortFrom(_, _)
SortFrom(keys, sorted) ==
    IF keys = <<>> THEN sorted ELSE SortFrom(Tail(keys), InsertDir(sorted, Head(keys)))
SortDirs(groups) == SortFrom([g \in 1..Len(groups) |-> groups[g].dir], <<>>)

\* dirGroups.get(dir): the members of a group.
GroupFiles(groups, dir) ==
    groups[CHOOSE g \in 1..Len(groups) : groups[g].dir = dir].members

\* ------------------------------------------------------------------------
\* generateChunks: chunks
\* ------------------------------------------------------------------------
\* A chunk under construction: its text, and the positions (in the file
\* list) of the files whose blocks were appended to it, in order.
EmptyChunk == [text |-> "", blocks |-> <<>>]

\* currentChunk += the blocks of the files at positions idxs.
AppendBlocks(chunk, idxs, fs, opts) ==
    [text |-> chunk.text \o Join([k \in 1..Len(idxs) |-> FormattedBlocks[fs[idxs[k]], opts]]),
     blocks |-> chunk.blocks \o idxs]

\* currentChunk.length > 0
HasContent(chunk) == Len(chunk.text) > 0

\* The push without its test for content.
PushIfContent_Always(cs, chunk) == Append(cs, chunk)

\* if (currentChunk.length > 0) chunks.push(currentChunk)
PushIfContent(cs, chunk) == IF HasContent(chunk) THEN Append(cs, chunk) ELSE cs

\* The sum of the block estimates of the files at positions idxs.
RECURSIVE TotalTokens(_, _, _)
TotalTokens(idxs, fs, opts) ==
    IF idxs = <<>> THEN 0
    ELSE estimateTokens(FormattedBlocks[fs[Head(idxs)], opts])
             + TotalTokens(Tail(idxs), fs, opts)

\* Scenario 1 with the running total left out of the comparison.
FitsCurrent_IgnoresCurrent(cur, groupTotal, limit) == groupTotal <= limit

\* Scenario 1: the whole directory fits in the remaining space.
FitsCurrent(cur, groupTotal, limit) == cur + groupTotal <= limit

\* Scenario 3 with the tie at the limit counted as not fitting.
FitsFresh_Strict(groupTotal, limit) == groupTotal < limit

\* Scenario 3: the whole directory fits in a fresh chunk.
FitsFresh(groupTotal, limit) == groupTotal <= limit

\* Scenario 4 with the tie at the limit counted as an overflow.
Overflows_AtLimit(cur, fileTokens, limit) == cur + fileTokens >= limit

\* Scenario 4: the block does not fit in the remaining space.
Overflows(cur, fileTokens, limit) == cur + fileTokens > limit

\* ------------------------------------------------------------------------
\* State
\* ------------------------------------------------------------------------
VARIABLES
    files,          \* the file list (App state `files`)
    tokenLimit,     \* the token limit (> 0)
    options,        \* the OutputOptions
    fullOutput,     \* the result of generateLLMOutput (NoOutput before the call)
    pc,             \* "assemble", "start", "group", "split" or "done"
    prevChunks,     \* the result of the previous invocation (NoOutput if none)
    dirGroups,      \* local: the groups, in insertion order
    sortedDirs,     \* local: the sorted directory keys
    dirIndex,       \* local: the position of the for loop in sortedDirs
    fileIndex,      \* local: the position of the inner loop in groupStrings
    currentChunk,   \* local: the chunk under construction
    currentTokens,  \* local: its running token total
    chunks          \* local: the chunks pushed so far; the result when done

\* State of the other components of the model: each has a specification of
\* its own, and is at rest in the specifications of the others.
VARIABLES
    ignorePath,     \* isIgnored: the path argument
    ignoreResult,   \* isIgnored: <<>> before the call, <<result>> after it
    treeFiles,      \* buildFileTree: the files argument
    root,           \* buildFileTree: the nodes created so far
    treePos,        \* buildFileTree: the position of files.forEach
    pattern,        \* createPatternMatcher: the pattern argument
    regex,          \* <<>> before the call, <<the RegExp returned or the throw>> after
    tested,         \* <<>>, or <<the path handed to regex.test and the result>>
    fileTree,       \* App: the memo fileTree
    invocation,     \* App: <<the tokenLimit generateChunks was invoked with>> in
                    \* the last render, <<>> if it was not invoked
    summarizing,    \* App: isSummarizingFiles
    toSummarize,    \* handleGenerateSummaries: the paths of the batches to come
    inFlight        \* handleGenerateSummaries: the paths of the batch awaited

packVars == <<files, tokenLimit, options, fullOutput, pc, prevChunks, dirGroups,
              sortedDirs, dirIndex, fileIndex, currentChunk, currentTokens, chunks>>
ignoreVars == <<ignorePath, ignoreResult>>
treeVars == <<treeFiles, root, treePos>>
matchVars == <<pattern, regex, tested>>
appVars == <<fileTree, invocation, summarizing, toSummarize, inFlight>>

VARIABLES
    toggleFiles,    \* toggleFile: the list the updater is applied to
    toggled         \* toggleFile: <<>>, or <<path, checked>> of the call made

VARIABLES
    rawFiles,           \* handleFilesSelected: the rawFiles argument
    sortedFiles,        \* handleFilesSelected: rawFiles after the sort
    batchStart,         \* handleFilesSelected: i of the batch loop, 1-based
    reading,            \* the positions (in sortedFiles) of the reads in flight
    newProcessedFiles,  \* handleFilesSelected: the array the reads push to
    uploadPc,           \* "rest", "call", "loop", "reading" or "done"
    readFailed,         \* a read was rejected
    filesSet            \* setFiles(newProcessedFiles) was called

VARIABLES
    sumFiles,            \* summaries: the file list (App state `files`)
    isSummarizingFiles,  \* summaries: the App state of that name
    filesToSummarize,    \* summaries: the captured files not yet sent
    batchInFlight        \* summaries: the captured files whose call is pending

VARIABLES
    navFiles,           \* navigation: the file list (App state `files`)
    navLimit,           \* navigation: the App state tokenLimit
    currentChunkIndex,  \* navigation: the App state of that name (0-based)
    effectPending,      \* navigation: the clamping effect is due to run
    lastClamp           \* navigation: <<>>, or <<index before, index after>>
                        \* of the last setCurrentChunkIndex of the effect

VARIABLES
    registry,     \* SafeModeProvider: the ids in the registry Map
    logs,         \* SafeModeProvider: the diagnostic log, newest entry first
    effectDue,    \* the SafeComponents whose registering effect is due to run
    renderDue     \* a state update of the provider awaits its render

VARIABLES
    agents,          \* ColosseumProvider: status and currentTaskId of each agent
    tasks,           \* ColosseumProvider: the task list
    isSwarmActive,   \* ColosseumProvider: the game loop's interval is running
    projectContext,  \* ColosseumProvider: the context of the last startSwarm
    decomposing,     \* the decomposeProject calls not settled yet
    thinkTimers,     \* <<agent, task>> of every pending one-second timer
    executing,       \* <<agent, task>> of every executeAgentTask not settled yet
    recoverTimers,   \* <<agent, task>> of every pending three-second timer
    execCalls        \* per task, how many times executeAgentTask was called

toggleVars == <<toggleFiles, toggled>>
swarmVars == <<agents, tasks, isSwarmActive, projectContext, decomposing,
               thinkTimers, executing, recoverTimers, execCalls>>
safeVars == <<registry, logs, effectDue, renderDue>>
navVars == <<navFiles, navLimit, currentChunkIndex, effectPending, lastClamp>>
summaryVars == <<sumFiles, isSummarizingFiles, filesToSummarize, batchInFlight>>
uploadVars == <<rawFiles, sortedFiles, batchStart, reading, newProcessedFiles,
                uploadPc, readFailed, filesSet>>

\* The components modelled on their own.
moreVars == <<toggleVars, uploadVars, summaryVars, navVars, safeVars, swarmVars>>

vars == <<packVars, ignoreVars, treeVars, matchVars, appVars, moreVars>>

\* What no step of the pipeline touches.
outside == <<ignoreVars, treeVars, matchVars, appVars, moreVars>>

IgnoreAtRest == ignorePath = <<>> /\ ignoreResult = <<>>
TreeAtRest == treeFiles = <<>> /\ root = <<>> /\ treePos = 0
MatchAtRest == pattern = <<>> /\ regex = <<>> /\ tested = <<>>
AppAtRest ==
    /\ fileTree = <<>>
    /\ invocation = <<>>
    /\ summarizing = FALSE
    /\ toSummarize = <<>>
    /\ inFlight = {}
ToggleAtRest == toggleFiles = <<>> /\ toggled = <<>>
UploadAtRest ==
    /\ rawFiles = <<>>
    /\ sortedFiles = <<>>
    /\ batchStart = 0
    /\ reading = {}
    /\ newProcessedFiles = <<>>
    /\ uploadPc = "rest"
    /\ readFailed = FALSE
    /\ filesSet = FALSE
SummaryAtRest ==
    /\ sumFiles = <<>>
    /\ isSummarizingFiles = FALSE
    /\ filesToSummarize = <<>>
    /\ batchInFlight = {}
NavAtRest ==
    /\ navFiles = <<>>
    /\ navLimit = 0
    /\ currentChunkIndex = 0
    /\ effectPending = FALSE
    /\ lastClamp = <<>>
SafeAtRest == registry = {} /\ logs = <<>> /\ effectDue = {} /\ renderDue = FALSE
SwarmAtRest ==
    /\ agents = <<>>
    /\ tasks = <<>>
    /\ isSwarmActive = FALSE
    /\ projectContext = "null"
    /\ decomposing = 0
    /\ thinkTimers = {}
    /\ executing = {}
    /\ recoverTimers = {}
    /\ execCalls = <<>>
MoreAtRest ==
    /\ ToggleAtRest /\ UploadAtRest /\ SummaryAtRest /\ NavAtRest /\ SafeAtRest
    /\ SwarmAtRest

inputs == <<files, tokenLimit, options>>
locals == <<dirGroups, sortedDirs, dirIndex, fileIndex, currentChunk, currentTokens>>

NoOutput == <<"none">>

\* The string[] that generateChunks returns.
ChunkTexts(cs) == [c \in 1..Len(cs) |-> cs[c].text]

Init ==
    /\ files \in FileLists
    /\ tokenLimit \in TokenLimits
    /\ options \in Options
    /\ fullOutput = NoOutput
    /\ pc = "assemble"
    /\ prevChunks = NoOutput
    /\ dirGroups = <<>>
    /\ sortedDirs = <<>>
    /\ dirIndex = 0
    /\ fileIndex = 0
    /\ currentChunk = EmptyChunk
    /\ currentTokens = 0
    /\ chunks = <<>>
    /\ IgnoreAtRest
    /\ TreeAtRest
    /\ MatchAtRest
    /\ AppAtRest
    /\ MoreAtRest

\* The group the for loop is at, and its total estimate.
groupFiles == GroupFiles(dirGroups, sortedDirs[dirIndex])
groupTotalTokens == TotalTokens(groupFiles, files, options)
AtGroup == pc = "group" /\ dirIndex <= Len(sortedDirs)

\* fullOutput = generateLLMOutput(files, { includeSummaries })
Assemble ==
    /\ pc = "assemble"
    /\ fullOutput' = generateLLMOutput(files, options)
    /\ pc' = "start"
    /\ UNCHANGED <<outside, inputs, prevChunks, locals, chunks>>

\* generateChunks, no file selected: return [].
StartEmpty ==
    /\ pc = "start"
    /\ SelectedIndices(files) = <<>>
    /\ chunks' = <<>>
    /\ pc' = "done"
    /\ UNCHANGED <<outside, inputs, fullOutput, prevChunks, locals>>

\* generateChunks with its chunk list kept across invocations instead of
\* being created by each one.
StartPack_KeepsChunks ==
    /\ pc = "start"
    /\ SelectedIndices(files) # <<>>
    /\ dirGroups' = GroupByDirectory(files)
    /\ sortedDirs' = SortDirs(GroupByDirectory(files))
    /\ currentChunk' = EmptyChunk
    /\ currentTokens' = 0
    /\ dirIndex' = 1
    /\ fileIndex' = 0
    /\ pc' = "group"
    /\ UNCHANGED <<outside, inputs, fullOutput, prevChunks, chunks>>

\* generateChunks up to the for loop: group, sort, start an empty chunk.
StartPack ==
    /\ pc = "start"
    /\ SelectedIndices(files) # <<>>
    /\ chunks' = <<>>
    /\ dirGroups' = GroupByDirectory(files)
    /\ sortedDirs' = SortDirs(GroupByDirectory(files))
    /\ currentChunk' = EmptyChunk
    /\ currentTokens' = 0
    /\ dirIndex' = 1
    /\ fileIndex' = 0
    /\ pc' = "group"
    /\ UNCHANGED <<outside, inputs, fullOutput, prevChunks>>

\* Scenario 1: the group is appended to the current chunk.
AtomicFit ==
    /\ AtGroup
    /\ FitsCurrent(currentTokens, groupTotalTokens, tokenLimit)
    /\ currentChunk' = AppendBlocks(currentChunk, groupFiles, files, options)
    /\ currentTokens' = currentTokens + groupTotalTokens
    /\ dirIndex' = dirIndex + 1
    /\ UNCHANGED <<outside, inputs, fullOutput, pc, prevChunks, dirGroups, sortedDirs,
                   fileIndex, chunks>>

\* Scenarios 2 and 3: the current chunk is closed if it has content, and the
\* group is put into the fresh chunk.
FreshFit ==
    /\ AtGroup
    /\ ~FitsCurrent(currentTokens, groupTotalTokens, tokenLimit)
    /\ FitsFresh(groupTotalTokens, tokenLimit)
    /\ chunks' = PushIfContent(chunks, currentChunk)
    /\ currentChunk' = AppendBlocks(EmptyChunk, groupFiles, files, options)
    /\ currentTokens' = groupTotalTokens
    /\ dirIndex' = dirIndex + 1
    /\ UNCHANGED <<outside, inputs, fullOutput, pc, prevChunks, dirGroups, sortedDirs,
                   fileIndex>>

\* Scenarios 2 and 3 left out: a group that does not fit the remaining space
\* is entered file by file, on top of the current chunk.
SplitStart_Greedy ==
    /\ AtGroup
    /\ ~FitsCurrent(currentTokens, groupTotalTokens, tokenLimit)
    /\ fileIndex' = 1
    /\ pc' = "split"
    /\ UNCHANGED <<outside, inputs, fullOutput, prevChunks, dirGroups, sortedDirs, dirIndex,
                   currentChunk, currentTokens, chunks>>

\* Scenarios 2 and 4: the current chunk is closed if it has content, and the
\* group is entered file by file.
SplitStart ==
    /\ AtGroup
    /\ ~FitsCurrent(currentTokens, groupTotalTokens, tokenLimit)
    /\ ~FitsFresh(groupTotalTokens, tokenLimit)
    /\ chunks' = PushIfContent(chunks, currentChunk)
    /\ currentChunk' = IF HasContent(currentChunk) THEN EmptyChunk ELSE currentChunk
    /\ currentTokens' = IF HasContent(currentChunk) THEN 0 ELSE currentTokens
    /\ fileIndex' = 1
    /\ pc' = "split"
    /\ UNCHANGED <<outside, inputs, fullOutput, prevChunks, dirGroups, sortedDirs, dirIndex>>

\* Scenario 4 with the push left out: the closed chunk is dropped.
SplitFile_NoPush ==
    /\ pc = "split"
    /\ LET f == groupFiles[fileIndex]
           fileTokens == estimateTokens(FormattedBlocks[files[f], options])
           closes == Overflows(currentTokens, fileTokens, tokenLimit)
                        /\ HasContent(currentChunk)
       IN /\ chunks' = chunks
          /\ currentChunk' = AppendBlocks(IF closes THEN EmptyChunk ELSE currentChunk,
                                          <<f>>, files, options)
          /\ currentTokens' = (IF closes THEN 0 ELSE currentTokens) + fileTokens
    /\ IF fileIndex < Len(groupFiles)
       THEN fileIndex' = fileIndex + 1 /\ UNCHANGED <<pc, dirIndex>>
       ELSE fileIndex' = 0 /\ pc' = "group" /\ dirIndex' = dirIndex + 1
    /\ UNCHANGED <<outside, inputs, fullOutput, prevChunks, dirGroups, sortedDirs>>

\* Scenario 4, one pass of the inner loop: the current chunk is closed if the
\* block does not fit and the chunk has content; the block is appended.
SplitFile ==
    /\ pc = "split"
    /\ LET f == groupFiles[fileIndex]
           fileTokens == estimateTokens(FormattedBlocks[files[f], options])
           closes == Overflows(currentTokens, fileTokens, tokenLimit)
                        /\ HasContent(currentChunk)
       IN /\ chunks' = IF closes THEN Append(chunks, currentChunk) ELSE chunks
          /\ currentChunk' = AppendBlocks(IF closes THEN EmptyChunk ELSE currentChunk,
                                          <<f>>, files, options)
          /\ currentTokens' = (IF closes THEN 0 ELSE currentTokens) + fileTokens
    /\ IF fileIndex < Len(groupFiles)
       THEN fileIndex' = fileIndex + 1 /\ UNCHANGED <<pc, dirIndex>>
       ELSE fileIndex' = 0 /\ pc' = "group" /\ dirIndex' = dirIndex + 1
    /\ UNCHANGED <<outside, inputs, fullOutput, prevChunks, dirGroups, sortedDirs>>

\* After the for loop: the last chunk is pushed, the chunks are returned.
Finish ==
    /\ pc = "group"
    /\ dirIndex > Len(sortedDirs)
    /\ chunks' = PushIfContent(chunks, currentChunk)
    /\ pc' = "done"
    /\ UNCHANGED <<outside, inputs, fullOutput, prevChunks, locals>>

\* generateChunks is invoked a second time with the same arguments.
Rerun ==
    /\ pc = "done"
    /\ prevChunks = NoOutput
    /\ prevChunks' = ChunkTexts(chunks)
    /\ pc' = "start"
    /\ UNCHANGED <<outside, inputs, fullOutput, locals, chunks>>

Next ==
    \/ Assemble
    \/ StartEmpty
    \/ StartPack
    \/ AtomicFit
    \/ FreshFit
    \/ SplitStart
    \/ SplitFile
    \/ Finish
    \/ Rerun

Spec == Init /\ [][Next]_vars

\* ------------------------------------------------------------------------
\* Vocabulary of the properties
\* ------------------------------------------------------------------------
\* ------------------------------------------------------------------------
\* isIgnored (IgnoreFilter)
\* ------------------------------------------------------------------------
\* The characters of a text.
Chars(s) == [i \in 1..Len(s) |-> SubSeq(s, i, i)]

\* String.prototype.split(sep) for a one-character separator: the pieces
\* between the separators, at least one.
RECURSIVE SplitFrom(_, _, _)
SplitFrom(s, sep, piece) ==
    IF s = <<>> THEN <<piece>>
    ELSE IF Head(s) = sep THEN <<piece>> \o SplitFrom(Tail(s), sep, <<>>)
    ELSE SplitFrom(Tail(s), sep, Append(piece, Head(s)))
Split(s, sep) == SplitFrom(s, sep, <<>>)

\* String.prototype.startsWith.
StartsWith(s, prefix) ==
    Len(prefix) <= Len(s) /\ SubSeq(s, 1, Len(prefix)) = prefix

IGNORED_DIRS ==
    { Chars("node_modules"), Chars(".git"), Chars(".vscode"), Chars(".idea"),
      Chars("dist"), Chars("build"), Chars("out"), Chars("target"),
      Chars(".next"), Chars(".nuxt"), Chars("coverage"), Chars("venv"),
      Chars("__pycache__"), Chars(".DS_Store") }

IGNORED_EXTENSIONS ==
    { Chars(".png"), Chars(".jpg"), Chars(".jpeg"), Chars(".gif"), Chars(".svg"),
      Chars(".ico"), Chars(".webp"), Chars(".bmp"), Chars(".tiff"),
      Chars(".mp3"), Chars(".mp4"), Chars(".wav"), Chars(".avi"), Chars(".mov"),
      Chars(".flv"),
      Chars(".zip"), Chars(".tar"), Chars(".gz"), Chars(".rar"), Chars(".7z"),
      Chars(".exe"), Chars(".dll"), Chars(".so"), Chars(".dylib"), Chars(".bin"),
      Chars(".pdf"), Chars(".doc"), Chars(".docx"), Chars(".ppt"), Chars(".pptx"),
      Chars(".xls"), Chars(".xlsx"),
      Chars(".lock"), Chars("package-lock.json"), Chars("yarn.lock"),
      Chars("pnpm-lock.yaml") }

\* The directory loop with the last part, the file name, left out.
HasIgnoredDir_ParentsOnly(parts) ==
    \E k \in 1..(Len(parts) - 1) : parts[k] \in IGNORED_DIRS

\* for (const part of parts) if (IGNORED_DIRS.has(part)) return true
HasIgnoredDir(parts) == \E k \in 1..Len(parts) : parts[k] \in IGNORED_DIRS

isIgnored(path) ==
    LET parts == Split(path, "/")
        filename == parts[Len(parts)]
        dotIndex == LastIndexOf(filename, ".")
    IN  IF HasIgnoredDir(parts) THEN TRUE
        ELSE IF StartsWith(filename, <<".">>) /\ filename = Chars(".DS_Store") THEN TRUE
        ELSE IF dotIndex # 0
                /\ ToLowerCase(SubSeq(filename, dotIndex, Len(filename)))
                      \in IGNORED_EXTENSIONS
             THEN TRUE
        ELSE FALSE

\* The segments the paths handed to isIgnored are made of: noise directory
\* names, other directory names, file names with and without a denylisted
\* extension, a denylisted name in another case, the empty segment.
Segments ==
    { Chars("node_modules"), Chars("dist"), Chars(".git"), Chars("Dist"),
      Chars("src"), Chars("foo"), Chars(""), Chars("bar.js"), Chars("index.ts"),
      Chars("a.PNG"), Chars("x.tar.gz"), Chars("yarn.lock"),
      Chars("package-lock.json"), Chars("pnpm-lock.yaml"), Chars(".DS_Store"),
      Chars(".env"),
      Chars("outer"), Chars("build.ts") }

\* Array.prototype.join(sep).
RECURSIVE JoinWith(_, _)
JoinWith(parts, sep) ==
    IF parts = <<>> THEN <<>>
    ELSE IF Len(parts) = 1 THEN parts[1]
    ELSE parts[1] \o <<sep>> \o JoinWith(Tail(parts), sep)

IgnorePaths ==
    { JoinWith(segs, "/") : segs \in UNION { [1..n -> Segments] : n \in 1..MaxSegments } }

\* The other components at rest.
PackAtRest ==
    /\ files = <<>>
    /\ tokenLimit = 0
    /\ options = [includeSummaries |-> TRUE]
    /\ fullOutput = NoOutput
    /\ pc = "rest"
    /\ prevChunks = NoOutput
    /\ dirGroups = <<>>
    /\ sortedDirs = <<>>
    /\ dirIndex = 0
    /\ fileIndex = 0
    /\ currentChunk = EmptyChunk
    /\ currentTokens = 0
    /\ chunks = <<>>

IgnoreInit ==
    /\ ignorePath \in IgnorePaths
    /\ ignoreResult = <<>>
    /\ PackAtRest
    /\ TreeAtRest
    /\ MatchAtRest
    /\ AppAtRest
    /\ MoreAtRest

\* isIgnored(path) is called and returns.
IsIgnoredCall ==
    /\ ignoreResult = <<>>
    /\ ignoreResult' = <<isIgnored(ignorePath)>>
    /\ UNCHANGED <<ignorePath, packVars, treeVars, matchVars, appVars, moreVars>>

IgnoreNext == IsIgnoredCall

IgnoreSpec == IgnoreInit /\ [][IgnoreNext]_vars

\* ------------------------------------------------------------------------
\* buildFileTree (TreeBuilder)
\* ------------------------------------------------------------------------
\* The forest is the sequence of its nodes in the order of their creation.
\* A node's parent is the position of the node whose children list it was
\* pushed to, 0 for the root list; a children list is the nodes with that
\* parent, in the order of the sequence, which is the order of the pushes.
\* A node has a children list exactly when it was created with isFile false.
FileNode(part, path, isFile, level) ==
    [name |-> part, path |-> path, isFile |-> isFile, checked |-> TRUE,
     parent |-> level]

\* The lookup restricted to nodes of the kind looked for.
FindNode_SameKind(nodes, level, path, isFile) ==
    { n \in 1..Len(nodes) :
        nodes[n].parent = level /\ nodes[n].path = path /\ nodes[n].isFile = isFile }

\* currentLevel.find(node => node.path === path): the matching nodes of the
\* level (find returns the first of them).
FindNode(nodes, level, path, isFile) ==
    { n \in 1..Len(nodes) : nodes[n].parent = level /\ nodes[n].path = path }

\* parts.forEach((part, index) => ...), from position index on.
RECURSIVE WalkParts(_, _, _, _)
WalkParts(nodes, parts, index, level) ==
    IF index > Len(parts) THEN nodes
    ELSE LET isFile == index = Len(parts)
             path == JoinWith(SubSeq(parts, 1, index), "/")
             found == FindNode(nodes, level, path, isFile)
             existingNode ==
                 IF found = {} THEN Len(nodes) + 1
                 ELSE CHOOSE n \in found : \A m \in found : n <= m
             pushed ==
                 IF found = {}
                 THEN Append(nodes, FileNode(parts[index], path, isFile, level))
                 ELSE nodes
             nextLevel ==
                 IF ~isFile /\ ~pushed[existingNode].isFile THEN existingNode
                 ELSE level
         IN  WalkParts(pushed, parts, index + 1, nextLevel)

\* The body of files.forEach for one file.
AddFileToTree(nodes, file) == WalkParts(nodes, Split(file.path, "/"), 1, 0)

RECURSIVE BuildFrom(_, _, _)
BuildFrom(nodes, fs, i) ==
    IF i > Len(fs) THEN nodes ELSE BuildFrom(AddFileToTree(nodes, fs[i]), fs, i + 1)

buildFileTree(fs) == BuildFrom(<<>>, fs, 1)

\* The paths the inputs of buildFileTree are drawn from: shared directory
\* prefixes, a path that is a file in one entry and a directory in another
\* ("a", "a/b"), a name that is a string prefix but not a path prefix
\* ("ab"), the same name at two levels ("b/a").
TreePaths ==
    { Chars("a"), Chars("a/b"), Chars("a/b/c"), Chars("a/c"), Chars("ab"),
      Chars("b"), Chars("b/a"), Chars("z/y") }

\* Lists with repeated paths included.
TreeInputs ==
    UNION { [1..n -> {[path |-> p] : p \in TreePaths}] : n \in 0..MaxTreeFiles }

TreeInit ==
    /\ treeFiles \in TreeInputs
    /\ root = <<>>
    /\ treePos = 1
    /\ PackAtRest
    /\ IgnoreAtRest
    /\ MatchAtRest
    /\ AppAtRest
    /\ MoreAtRest

\* One pass of files.forEach, taking the files from the end of the list.
AddFile_Reversed ==
    /\ treePos >= 1
    /\ treePos <= Len(treeFiles)
    /\ root' = AddFileToTree(root, treeFiles[Len(treeFiles) + 1 - treePos])
    /\ treePos' = treePos + 1
    /\ UNCHANGED <<treeFiles, packVars, ignoreVars, matchVars, appVars, moreVars>>

\* One pass of files.forEach.
AddFile ==
    /\ treePos >= 1
    /\ treePos <= Len(treeFiles)
    /\ root' = AddFileToTree(root, treeFiles[treePos])
    /\ treePos' = treePos + 1
    /\ UNCHANGED <<treeFiles, packVars, ignoreVars, matchVars, appVars, moreVars>>

TreeNext == AddFile

TreeSpec == TreeInit /\ [][TreeNext]_vars

\* ------------------------------------------------------------------------
\* Regular expressions, as far as createPatternMatcher makes them
\* ------------------------------------------------------------------------
\* The patterns of the model are written with letters, '.', '*', '?' and
\* '/'.  The regular expression sources made from them contain letters and
\* '/' (literals), '.', the quantifiers '*' and '?' (each with its lazy form
\* '*?', '??'), '\' before a syntax character (an identity escape) and a
\* final '$'.  Groups, classes, alternation and braces do not occur.

\* String.prototype.toUpperCase on one character (Canonicalize under the i
\* flag).
UpperChar(c) ==
    IF \E i \in 1..Len(LowerChars) : LowerChars[i] = c
    THEN UpperChars[CHOOSE i \in 1..Len(LowerChars) : LowerChars[i] = c]
    ELSE c

\* Characters that '.' does not match.
LineTerminators == {"\n", "\r"}

\* The flags the RegExp constructor accepts.
RegExpFlags == {"d", "g", "i", "m", "s", "u", "v", "y"}

ValidFlags(flags) ==
    /\ \A k \in 1..Len(flags) : flags[k] \in RegExpFlags
    /\ \A k, m \in 1..Len(flags) : flags[k] = flags[m] => k = m
    /\ ~((\E k \in 1..Len(flags) : flags[k] = "u")
            /\ (\E k \in 1..Len(flags) : flags[k] = "v"))

HasFlag(flags, f) == \E k \in 1..Len(flags) : flags[k] = f

\* The result of parsing a source: the terms read, or a SyntaxError.
SyntaxError == [error |-> TRUE, terms |-> <<>>]
Term(kind, ch) == [kind |-> kind, ch |-> ch, min |-> 1, many |-> FALSE, lazy |-> FALSE]

\* A term with the quantifier that follows it in the source, and the number
\* of characters the quantifier takes.
Quantified(term, src, i) ==
    LET q == IF i <= Len(src) /\ src[i] \in {"*", "?"} THEN src[i] ELSE ""
        lazy == q # "" /\ i + 1 <= Len(src) /\ src[i + 1] = "?"
    IN  [term |-> [term EXCEPT !.min = IF q = "" THEN 1 ELSE 0,
                               !.many = (q = "*"),
                               !.lazy = lazy],
         used |-> IF q = "" THEN 0 ELSE IF lazy THEN 2 ELSE 1]

\* The parse of src from position i on, after the terms read so far.
RECURSIVE ParseFrom(_, _, _)
ParseFrom(src, i, terms) ==
    IF i > Len(src) THEN [error |-> FALSE, terms |-> terms]
    ELSE IF src[i] \in {"*", "?"} THEN SyntaxError          \* nothing to repeat
    ELSE IF src[i] = "$" \/ src[i] = "^"
         THEN IF i + 1 <= Len(src) /\ src[i + 1] \in {"*", "?"}
              THEN SyntaxError                              \* nothing to repeat
              ELSE ParseFrom(src, i + 1,
                             Append(terms, Term(IF src[i] = "$" THEN "end" ELSE "start", "")))
    ELSE IF src[i] = "\\"
         THEN IF i = Len(src) THEN SyntaxError              \* \ at end of pattern
              ELSE LET q == Quantified(Term("char", src[i + 1]), src, i + 2)
                   IN  ParseFrom(src, i + 2 + q.used, Append(terms, q.term))
    ELSE LET q == Quantified(Term(IF src[i] = "." THEN "any" ELSE "char", src[i]),
                             src, i + 1)
         IN  ParseFrom(src, i + 1 + q.used, Append(terms, q.term))

\* A RegExp object; threw: the constructor threw instead.
Thrown == [threw |-> TRUE, terms |-> <<>>, ignoreCase |-> FALSE, global |-> FALSE,
           lastIndex |-> 0]

\* new RegExp(source, flags)
NewRegExp(source, flags) ==
    LET parsed == ParseFrom(source, 1, <<>>)
    IN  IF ~ValidFlags(flags) \/ parsed.error THEN Thrown
        ELSE [threw |-> FALSE, terms |-> parsed.terms,
              ignoreCase |-> HasFlag(flags, "i"),
              global |-> HasFlag(flags, "g") \/ HasFlag(flags, "y"),
              lastIndex |-> 0]

\* One character against one term.
AtomMatches(term, s, pos, ignoreCase) ==
    /\ pos <= Len(s)
    /\ IF term.kind = "any" THEN s[pos] \notin LineTerminators
       ELSE IF ignoreCase THEN UpperChar(s[pos]) = UpperChar(term.ch)
       ELSE s[pos] = term.ch

\* The backtracking matcher: the position after the first match of the terms
\* from k on that starts at pos, in the order of the alternatives the
\* quantifiers try (greedy: more first; lazy: fewer first); -1 if none.
RECURSIVE MatchAt(_, _, _, _, _)
MatchAt(terms, k, s, pos, ignoreCase) ==
    IF k > Len(terms) THEN pos
    ELSE LET t == terms[k]
             rest == MatchAt(terms, k + 1, s, pos, ignoreCase)
             step == IF AtomMatches(t, s, pos, ignoreCase)
                     THEN MatchAt(terms, IF t.many THEN k ELSE k + 1, s, pos + 1,
                                  ignoreCase)
                     ELSE -1
         IN  IF t.kind = "end" THEN (IF pos = Len(s) + 1 THEN rest ELSE -1)
             ELSE IF t.kind = "start" THEN (IF pos = 1 THEN rest ELSE -1)
             ELSE IF t.min = 1 THEN step
             ELSE IF t.lazy THEN (IF rest # -1 THEN rest ELSE step)
             ELSE (IF step # -1 THEN step ELSE rest)

\* The first match at or after the 0-based index from: its end index, -1 if
\* there is none.
RECURSIVE SearchFrom(_, _, _)
SearchFrom(re, s, from) ==
    IF from > Len(s) THEN -1
    ELSE LET e == MatchAt(re.terms, 1, s, from + 1, re.ignoreCase)
         IN  IF e # -1 THEN e - 1 ELSE SearchFrom(re, s, from + 1)

\* RegExp.prototype.test: the result, and the RegExp with the lastIndex that
\* the call leaves (a global RegExp starts at lastIndex and stores the end
\* of the match, or 0 when there is none).
RegExpTest(re, s) ==
    LET e == SearchFrom(re, s, IF re.global THEN re.lastIndex ELSE 0)
    IN  [result |-> e # -1,
         regex |-> IF re.global
                   THEN [re EXCEPT !.lastIndex = IF e # -1 THEN e ELSE 0]
                   ELSE re]

\* ------------------------------------------------------------------------
\* createPatternMatcher (PatternMatcher)
\* ------------------------------------------------------------------------
\* The characters of the class [.+^${}()|[\]\\].
EscapeClass == {".", "+", "^", "$", "{", "}", "(", ")", "|", "[", "]", "\\"}

\* pattern.replace(/[.+^${}()|[\]\\]/g, '\\$&')
RECURSIVE EscapeRegExp(_)
EscapeRegExp(s) ==
    IF s = <<>> THEN <<>>
    ELSE (IF Head(s) \in EscapeClass THEN <<"\\", Head(s)>> ELSE <<Head(s)>>)
            \o EscapeRegExp(Tail(s))

\* String.prototype.replace(/c/g, by) for one character c.
RECURSIVE ReplaceAll(_, _, _)
ReplaceAll(s, c, by) ==
    IF s = <<>> THEN <<>>
    ELSE (IF Head(s) = c THEN by ELSE <<Head(s)>>) \o ReplaceAll(Tail(s), c, by)

\* String.prototype.endsWith.
EndsWith(s, suffix) ==
    Len(suffix) <= Len(s) /\ SubSeq(s, Len(s) - Len(suffix) + 1, Len(s)) = suffix

\* pattern.match(/^\/(.+)\/([a-z]*)$/): <<>> for null, else <<body, flags>>.
\* The greedy (.+) ends at the last '/', which must be followed by lowercase
\* letters only; the body is not empty and holds no line terminator.
RegexMatch(p) ==
    LET last == LastIndexOf(p, "/")
    IN  IF /\ Len(p) >= 3
           /\ p[1] = "/"
           /\ last >= 3
           /\ \A k \in (last + 1)..Len(p) :
                  \E m \in 1..Len(LowerChars) : LowerChars[m] = p[k]
           /\ \A k \in 2..(last - 1) : p[k] \notin LineTerminators
        THEN <<SubSeq(p, 2, last - 1), SubSeq(p, last + 1, Len(p))>>
        ELSE <<>>

\* The fallback of the catch block with '*' and '?' escaped as well.
FallbackSource_AllEscaped(p) ==
    ReplaceAll(ReplaceAll(EscapeRegExp(p), "*", <<"\\", "*">>), "?", <<"\\", "?">>)

\* The source of the fallback RegExp of the catch block.
FallbackSource(p) == EscapeRegExp(p)

\* The glob branch read as an exact match of the whole path.
GlobSource_Anchored(p) ==
    <<"^">> \o ReplaceAll(ReplaceAll(EscapeRegExp(p), "*", <<".", "*">>), "?", <<".">>)
        \o (IF EndsWith(p, <<"/">>) THEN <<>> ELSE <<"$">>)

\* The source of the RegExp of the glob branch.
GlobSource(p) ==
    LET regexStr == ReplaceAll(ReplaceAll(EscapeRegExp(p), "*", <<".", "*">>),
                               "?", <<".">>)
    IN  IF EndsWith(p, <<"/">>) THEN regexStr
        ELSE IF StartsWith(p, <<".">>) THEN regexStr \o <<"$">>
        ELSE regexStr

\* createPatternMatcher(pattern): the RegExp returned, or Thrown when the
\* call throws (the constructor in the catch block is not guarded).
createPatternMatcher(p) ==
    LET regexMatch == RegexMatch(p)
    IN  IF regexMatch # <<>>
        THEN LET first == NewRegExp(regexMatch[1],
                                    IF regexMatch[2] # <<>> THEN regexMatch[2]
                                    ELSE <<"i">>)
             IN  IF ~first.threw THEN first
                 ELSE NewRegExp(FallbackSource(p), <<"i">>)
        ELSE NewRegExp(GlobSource(p), <<"i">>)

\* The characters patterns are written with: two letters that are flags as
\* well, and the characters the function treats specially.
PatternChars == {"i", ".", "*", "?", "/"}

\* The patterns of scenario D and of the comment of the function.
ExamplePatterns ==
    { Chars("*.test.ts"), Chars("src/temp/"), Chars("/^src\\/.*test/"),
      Chars("/i/g"), Chars("/./gi"), Chars("/g/gg") }

Patterns ==
    UNION { [1..n -> PatternChars] : n \in 0..MaxPatternLen } \cup ExamplePatterns

\* The paths matchers are tested on.
ExamplePaths ==
    { Chars("src/util.test.ts"), Chars("src/util.ts"), Chars("src/temp/x.ts"),
      Chars("a/**/b"), Chars("i/gi"), Chars("g/i.g"), Chars("/g/"), Chars("G.I/i"),
      Chars("x/?/i"), Chars("//"), Chars("/i/gg") }
PathChars == {"i", "G", "/"}
TestPaths == UNION { [1..n -> PathChars] : n \in 1..2 } \cup ExamplePaths

MatchInit ==
    /\ pattern \in Patterns
    /\ regex = <<>>
    /\ tested = <<>>
    /\ PackAtRest
    /\ IgnoreAtRest
    /\ TreeAtRest
    /\ AppAtRest
    /\ MoreAtRest

\* const regex = createPatternMatcher(pattern)
Compile ==
    /\ regex = <<>>
    /\ regex' = <<createPatternMatcher(pattern)>>
    /\ UNCHANGED <<pattern, tested, packVars, ignoreVars, treeVars, appVars, moreVars>>

\* regex.test(path), the first test of the RegExp.
Test ==
    /\ regex # <<>>
    /\ ~regex[1].threw
    /\ tested = <<>>
    /\ \E path \in TestPaths :
          LET t == RegExpTest(regex[1], path)
          IN  /\ tested' = <<[path |-> path, result |-> t.result]>>
              /\ regex' = <<t.regex>>
    /\ UNCHANGED <<pattern, packVars, ignoreVars, treeVars, appVars, moreVars>>

MatchNext == Compile \/ Test

MatchSpec == MatchInit /\ [][MatchNext]_vars

\* ------------------------------------------------------------------------
\* generateChunks as a function, for the renders of the application
\* ------------------------------------------------------------------------
\* The inner loop of scenario 4 from position k of the group on; st holds
\* chunks, currentChunk and currentTokens.
RECURSIVE SplitLoop(_, _, _, _, _, _)
SplitLoop(fs, limit, opts, group, k, st) ==
    IF k > Len(group) THEN st
    ELSE LET fileTokens == estimateTokens(FormattedBlocks[fs[group[k]], opts])
             closes == Overflows(st.currentTokens, fileTokens, limit)
                          /\ HasContent(st.currentChunk)
         IN  SplitLoop(fs, limit, opts, group, k + 1,
                [chunks |-> IF closes THEN Append(st.chunks, st.currentChunk)
                            ELSE st.chunks,
                 currentChunk |-> AppendBlocks(IF closes THEN EmptyChunk
                                               ELSE st.currentChunk,
                                               <<group[k]>>, fs, opts),
                 currentTokens |-> (IF closes THEN 0 ELSE st.currentTokens) + fileTokens])

\* The for loop over sortedDirs from position k on, and the final push.
RECURSIVE GroupLoop(_, _, _, _, _, _, _)
GroupLoop(fs, limit, opts, groups, dirs, k, st) ==
    IF k > Len(dirs) THEN PushIfContent(st.chunks, st.currentChunk)
    ELSE LET group == GroupFiles(groups, dirs[k])
             total == TotalTokens(group, fs, opts)
             flushed == [chunks |-> PushIfContent(st.chunks, st.currentChunk),
                         currentChunk |-> IF HasContent(st.currentChunk) THEN EmptyChunk
                                          ELSE st.currentChunk,
                         currentTokens |-> IF HasContent(st.currentChunk) THEN 0
                                           ELSE st.currentTokens]
         IN  IF FitsCurrent(st.currentTokens, total, limit)
             THEN GroupLoop(fs, limit, opts, groups, dirs, k + 1,
                     [chunks |-> st.chunks,
                      currentChunk |-> AppendBlocks(st.currentChunk, group, fs, opts),
                      currentTokens |-> st.currentTokens + total])
             ELSE IF FitsFresh(total, limit)
             THEN GroupLoop(fs, limit, opts, groups, dirs, k + 1,
                     [chunks |-> flushed.chunks,
                      currentChunk |-> AppendBlocks(flushed.currentChunk, group, fs, opts),
                      currentTokens |-> flushed.currentTokens + total])
             ELSE GroupLoop(fs, limit, opts, groups, dirs, k + 1,
                     SplitLoop(fs, limit, opts, group, 1, flushed))

generateChunks(fs, limit, opts) ==
    IF SelectedIndices(fs) = <<>> THEN <<>>
    ELSE GroupLoop(fs, limit, opts, GroupByDirectory(fs), SortDirs(GroupByDirectory(fs)), 1,
                   [chunks |-> <<>>, currentChunk |-> EmptyChunk, currentTokens |-> 0])

\* ------------------------------------------------------------------------
\* The application (AppContent of App.tsx)
\* ------------------------------------------------------------------------
\* The values of the options of the token limit selector.
LimitOptions_Negative == {-1, 0, 100000, 30000, 8000}
LimitOptions == {0, 100000, 30000, 8000}

\* The lists setFiles(newProcessedFiles) can install after an upload: the
\* files that are not ignored, selected, without summary, in the order in
\* which their reads completed.
UploadLists ==
    LET new == { [path |-> r.path, name |-> r.name, content |-> r.content,
                  summary |-> <<>>, selected |-> TRUE] :
                     r \in {q \in AppRawFiles : ~isIgnored(q.path)} }
    IN  UNION { { l \in [1..n -> new] :
                    \A i, j \in 1..n : l[i].path = l[j].path => i = j } : n \in 0..MaxUpload }

\* What summarizeCode can resolve to for a file: a text, or "" after an
\* error (the absent and the empty summary are both <<>>).
SummariesFor(path) ==
    { r.summary : r \in {q \in AppRawFiles : q.path = path} } \cup {<<>>}

\* The texts FilterPanel hands to handleApplyFilters: its active patterns
\* joined by "\n".
FilterInputs ==
    { Chars(""), Chars("*.ts"), Chars("s/\n.html"), Chars("/s/g"),
      Chars("/\\.ts$/g\na.ts"), Chars("/**/\n*.ts") }

\* The updater of toggleFile with the directory test made on the bare path.
toggleFile_BarePrefix(fs, path, checked) ==
    [i \in 1..Len(fs) |->
        IF fs[i].path = path \/ StartsWith(fs[i].path, path)
        THEN [fs[i] EXCEPT !.selected = checked]
        ELSE fs[i]]

\* The updater of toggleFile: prev.map(...)
toggleFile(fs, path, checked) ==
    [i \in 1..Len(fs) |->
        IF fs[i].path = path \/ StartsWith(fs[i].path, path \o <<"/">>)
        THEN [fs[i] EXCEPT !.selected = checked]
        ELSE fs[i]]

\* matchers.some(regex => regex.test(path)) from matcher k on: the result,
\* and the matchers as the tests made leave them.
RECURSIVE SomeTest(_, _, _)
SomeTest(matchers, k, path) ==
    IF k > Len(matchers) THEN [result |-> FALSE, matchers |-> matchers]
    ELSE LET t == RegExpTest(matchers[k], path)
             after == [matchers EXCEPT ![k] = t.regex]
         IN  IF t.result THEN [result |-> TRUE, matchers |-> after]
             ELSE SomeTest(after, k + 1, path)

\* prev.map(f => matchers.some(...) ? { ...f, selected: false } : f) from
\* file i on: the matchers are the same objects for every file.
RECURSIVE ExcludeFrom(_, _, _)
ExcludeFrom(fs, i, matchers) ==
    IF i > Len(fs) THEN <<>>
    ELSE LET t == SomeTest(matchers, 1, fs[i].path)
         IN  <<IF t.result THEN [fs[i] EXCEPT !.selected = FALSE] ELSE fs[i]>>
                \o ExcludeFrom(fs, i + 1, t.matchers)

\* patternsInput.split('\n').map(p => p.trim()).filter(p => p.length > 0)
PatternsOf(patternsInput) ==
    SelectSeq([k \in 1..Len(Split(patternsInput, "\n")) |->
                  Trim(Split(patternsInput, "\n")[k])],
              LAMBDA p : Len(p) > 0)

\* The file list handleApplyFilters leaves: unchanged on the early returns
\* and when createPatternMatcher throws (setFiles is not reached).
handleApplyFilters(fs, patternsInput) ==
    LET patterns == PatternsOf(patternsInput)
        matchers == [k \in 1..Len(patterns) |-> createPatternMatcher(patterns[k])]
    IN  IF Trim(patternsInput) = <<>> THEN fs
        ELSE IF Len(patterns) = 0 THEN fs
        ELSE IF \E k \in 1..Len(matchers) : matchers[k].threw THEN fs
        ELSE ExcludeFrom(fs, 1, matchers)

\* The updater of handleResetFilters.
handleResetFilters(fs) == [i \in 1..Len(fs) |-> [fs[i] EXCEPT !.selected = TRUE]]

\* The updater of handleGenerateSummaries for one resolved summary.
attachSummary_EveryFile(fs, path, summary) ==
    [i \in 1..Len(fs) |-> [fs[i] EXCEPT !.summary = summary]]
attachSummary(fs, path, summary) ==
    [i \in 1..Len(fs) |->
        IF fs[i].path = path THEN [fs[i] EXCEPT !.summary = summary] ELSE fs[i]]

IsBinary(f) == f.content = "[Binary file detected]"

\* files.filter(f => f.selected && !f.isBinary && !f.summary), as paths.
FilesToSummarize(fs) ==
    LET keep == SelectSeq([i \in 1..Len(fs) |-> i],
                          LAMBDA i : fs[i].selected /\ ~IsBinary(fs[i])
                                        /\ fs[i].summary = <<>>)
    IN  [k \in 1..Len(keep) |-> fs[keep[k]].path]

BATCH_SIZE == 2

\* The memo chunks.
AppChunks(fs, limit, full, opts) ==
    IF limit = 0 THEN <<[text |-> full, blocks |-> SelectedIndices(fs)]>>
    ELSE generateChunks(fs, limit, opts)

\* The render that follows a state update: the memos are recomputed from
\* the new state.
Render ==
    /\ fileTree' = buildFileTree(files')
    /\ fullOutput' = generateLLMOutput(files', options')
    /\ chunks' = AppChunks(files', tokenLimit', fullOutput', options')
    /\ invocation' = IF tokenLimit' = 0 THEN <<>> ELSE <<tokenLimit'>>

\* What no handler of the application touches.
appFrame == <<pc, prevChunks, locals, ignoreVars, treeVars, matchVars, moreVars>>

AppInit ==
    /\ files = <<>>
    /\ tokenLimit = 0
    /\ options = [includeSummaries |-> TRUE]
    /\ fullOutput = ""
    /\ chunks = <<[text |-> "", blocks |-> <<>>]>>
    /\ pc = "rest"
    /\ prevChunks = NoOutput
    /\ dirGroups = <<>>
    /\ sortedDirs = <<>>
    /\ dirIndex = 0
    /\ fileIndex = 0
    /\ currentChunk = EmptyChunk
    /\ currentTokens = 0
    /\ IgnoreAtRest
    /\ TreeAtRest
    /\ MatchAtRest
    /\ AppAtRest
    /\ MoreAtRest

\* handleFilesSelected: setFiles(newProcessedFiles)
Upload ==
    /\ files' \in UploadLists
    /\ UNCHANGED <<tokenLimit, options, summarizing, toSummarize, inFlight, appFrame>>
    /\ Render

\* A click on the checkbox of a tree node: onToggle(node.path, !isChecked)
\* with isChecked = node.checked !== false.
ToggleNode(n) ==
    /\ files' = toggleFile(files, fileTree[n].path, ~(fileTree[n].checked # FALSE))
    /\ UNCHANGED <<tokenLimit, options, summarizing, toSummarize, inFlight, appFrame>>
    /\ Render

ToggleFile == \E n \in 1..Len(fileTree) : ToggleNode(n)

\* Apply of FilterPanel (shown when there are files) with the patterns
\* patternsInput.
ApplyFiltersWith(patternsInput) ==
    /\ Len(files) > 0
    /\ files' = handleApplyFilters(files, patternsInput)
    /\ UNCHANGED <<tokenLimit, options, summarizing, toSummarize, inFlight, appFrame>>
    /\ Render

ApplyFilters == \E patternsInput \in FilterInputs : ApplyFiltersWith(patternsInput)

\* Reset of FilterPanel.
ResetFilters ==
    /\ Len(files) > 0
    /\ files' = handleResetFilters(files)
    /\ UNCHANGED <<tokenLimit, options, summarizing, toSummarize, inFlight, appFrame>>
    /\ Render

\* The token limit selector of OutputPanel (shown when there are files).
SetTokenLimit ==
    /\ Len(files) > 0
    /\ tokenLimit' \in LimitOptions
    /\ UNCHANGED <<files, options, summarizing, toSummarize, inFlight, appFrame>>
    /\ Render

\* The eye button of OutputPanel: setIncludeSummaries(!includeSummaries)
ToggleIncludeSummaries ==
    /\ Len(files) > 0
    /\ options' = [includeSummaries |-> ~options.includeSummaries]
    /\ UNCHANGED <<files, tokenLimit, summarizing, toSummarize, inFlight, appFrame>>
    /\ Render

\* handleGenerateSummaries up to its first await (the button is disabled
\* while isSummarizingFiles; the API key is taken to be set): the first
\* batch is sent; with nothing to summarize the handler ends at once.
GenerateSummaries ==
    /\ Len(files) > 0
    /\ ~summarizing
    /\ LET paths == FilesToSummarize(files)
           first == IF Len(paths) < BATCH_SIZE THEN Len(paths) ELSE BATCH_SIZE
       IN  /\ summarizing' = (Len(paths) > 0)
           /\ inFlight' = {paths[k] : k \in 1..first}
           /\ toSummarize' = SubSeq(paths, first + 1, Len(paths))
    /\ options' = [includeSummaries |-> TRUE]
    /\ UNCHANGED <<files, tokenLimit, appFrame>>
    /\ Render

\* summarizeCode resolves for a file of the batch: the summary is attached;
\* after the last file of the last batch the handler ends.
SummaryResolved ==
    /\ \E path \in inFlight :
          /\ \E summary \in SummariesFor(path) :
                files' = attachSummary(files, path, summary)
          /\ inFlight' = inFlight \ {path}
          /\ summarizing' = ~(inFlight = {path} /\ toSummarize = <<>>)
    /\ UNCHANGED <<tokenLimit, options, toSummarize, appFrame>>
    /\ Render

\* The wait between two batches is over: the next batch is sent.
NextBatch ==
    /\ summarizing
    /\ inFlight = {}
    /\ toSummarize # <<>>
    /\ LET first == IF Len(toSummarize) < BATCH_SIZE THEN Len(toSummarize)
                    ELSE BATCH_SIZE
       IN  /\ inFlight' = {toSummarize[k] : k \in 1..first}
           /\ toSummarize' = SubSeq(toSummarize, first + 1, Len(toSummarize))
    /\ UNCHANGED <<files, tokenLimit, options, summarizing, appFrame>>
    /\ Render

AppNext ==
    \/ Upload
    \/ ApplyFilters
    \/ ToggleFile
    \/ ResetFilters
    \/ SetTokenLimit
    \/ ToggleIncludeSummaries
    \/ GenerateSummaries
    \/ SummaryResolved
    \/ NextBatch

AppSpec == AppInit /\ [][AppNext]_vars

\* ------------------------------------------------------------------------
\* toggleFile on its own
\* ------------------------------------------------------------------------
\* The lists the updater is applied to: files with and without a summary,
\* selected or not, no path twice.
ToggleLists ==
    UNION { { l \in [1..n -> AppProcessedFiles] :
                \A i, j \in 1..n : l[i].path = l[j].path => i = j } : n \in 0..MaxUpload }

\* The path arguments: paths of files, of a directory, and texts that are a
\* prefix of a path as strings only.
TogglePaths ==
    { Chars("a.ts"), Chars("s"), Chars("s/b.ts"), Chars("s/c.html"), Chars("s/b"),
      Chars("a") }

\* What a call of toggleFile leaves alone.
toggleFrame == <<packVars, ignoreVars, treeVars, matchVars, appVars, uploadVars,
                summaryVars, navVars,
    safeVars, swarmVars>>

ToggleInit ==
    /\ toggleFiles \in ToggleLists
    /\ toggled = <<>>
    /\ PackAtRest
    /\ IgnoreAtRest
    /\ TreeAtRest
    /\ MatchAtRest
    /\ AppAtRest
    /\ UploadAtRest
    /\ SummaryAtRest
    /\ NavAtRest
    /\ SafeAtRest
    /\ SwarmAtRest

\* toggleFile(path, checked) is called and its updater applied.
ToggleCallWith(path, checked) ==
    /\ toggled = <<>>
    /\ toggleFiles' = toggleFile(toggleFiles, path, checked)
    /\ toggled' = <<path, checked>>
    /\ UNCHANGED toggleFrame

ToggleCall == \E path \in TogglePaths, checked \in BOOLEAN : ToggleCallWith(path, checked)

ToggleNext == ToggleCall

ToggleSpec == ToggleInit /\ [][ToggleNext]_vars

\* ------------------------------------------------------------------------
\* handleFilesSelected (the upload)
\* ------------------------------------------------------------------------
CHUNK_SIZE == 20

\* The File objects of an upload: path, name, and whether size exceeds
\* MAX_FILE_SIZE.
RawUploads ==
    { [path |-> p, name |-> Basename(p), large |-> b] :
        p \in { Chars("a.ts"), Chars("b.ts"), Chars("s/c.ts"), Chars("x.png") },
        b \in BOOLEAN }

UploadInputs ==
    UNION { { l \in [1..n -> RawUploads] :
                \A i, j \in 1..n : l[i].path = l[j].path => i = j } : n \in 0..MaxUpload }

\* One file inserted into a sorted list, behind the files that do not
\* compare greater.
RECURSIVE InsertRaw(_, _)
InsertRaw(sorted, f) ==
    IF sorted = <<>> THEN <<f>>
    ELSE IF LocaleCompare(f.path, Head(sorted).path) < 0 THEN <<f>> \o sorted
    ELSE <<Head(sorted)>> \o InsertRaw(Tail(sorted), f)

\* rawFiles.sort((a, b) => pathA.localeCompare(pathB))
RECURSIVE SortRaw(_, _)
SortRaw(fs, sorted) ==
    IF fs = <<>> THEN sorted ELSE SortRaw(Tail(fs), InsertRaw(sorted, Head(fs)))

\* What readFileContent resolves with (the text of a file is one text).
ReadContent(f) == IF f.large THEN "[File too large]" ELSE "text"

\* The object a completed read pushes.
Processed(f) ==
    [path |-> f.path, name |-> f.name, content |-> ReadContent(f), selected |-> TRUE]

\* What the upload leaves alone.
uploadFrame == <<packVars, ignoreVars, treeVars, matchVars, appVars, toggleVars,
                summaryVars, navVars,
    safeVars, swarmVars>>

UploadInit ==
    /\ rawFiles \in UploadInputs
    /\ sortedFiles = <<>>
    /\ batchStart = 0
    /\ reading = {}
    /\ newProcessedFiles = <<>>
    /\ uploadPc = "call"
    /\ readFailed = FALSE
    /\ filesSet = FALSE
    /\ PackAtRest
    /\ IgnoreAtRest
    /\ TreeAtRest
    /\ MatchAtRest
    /\ AppAtRest
    /\ ToggleAtRest
    /\ SummaryAtRest
    /\ NavAtRest
    /\ SafeAtRest
    /\ SwarmAtRest

\* The handler up to the batch loop.
SortUpload ==
    /\ uploadPc = "call"
    /\ sortedFiles' = SortRaw(rawFiles, <<>>)
    /\ batchStart' = 1
    /\ uploadPc' = "loop"
    /\ UNCHANGED <<rawFiles, reading, newProcessedFiles, readFailed, filesSet, uploadFrame>>

\* One round of the loop up to await Promise.all: every file of the batch
\* is tested with isIgnored and the read of every file kept is started.
StartBatch ==
    /\ uploadPc = "loop"
    /\ batchStart <= Len(sortedFiles)
    /\ reading' = { k \in batchStart..(batchStart + CHUNK_SIZE - 1) :
                      k <= Len(sortedFiles) /\ ~isIgnored(sortedFiles[k].path) }
    /\ uploadPc' = "reading"
    /\ UNCHANGED <<rawFiles, sortedFiles, batchStart, newProcessedFiles, readFailed,
                   filesSet, uploadFrame>>

\* The read of file k is over and its continuation pushes the file.  The
\* read of a file that is too large is resolved at the call, so its
\* continuation runs, in the order of the calls, before every load event;
\* the load events of the other reads come in any order.
ReadResolved ==
    /\ \E k \in reading :
          /\ IF \E m \in reading : sortedFiles[m].large
             THEN sortedFiles[k].large
                    /\ \A m \in reading : sortedFiles[m].large => k <= m
             ELSE TRUE
          /\ newProcessedFiles' = Append(newProcessedFiles, Processed(sortedFiles[k]))
          /\ reading' = reading \ {k}
    /\ UNCHANGED <<rawFiles, sortedFiles, batchStart, uploadPc, readFailed, filesSet,
                   uploadFrame>>

\* reader.onerror for file k: Promise.all rejects, the catch and the finally
\* block run; the other reads of the batch go on.
ReadRejected ==
    /\ uploadPc = "reading"
    /\ \E k \in reading :
          /\ ~sortedFiles[k].large
          /\ \A m \in reading : ~sortedFiles[m].large
          /\ reading' = reading \ {k}
    /\ readFailed' = TRUE
    /\ filesSet' = TRUE
    /\ uploadPc' = "done"
    /\ UNCHANGED <<rawFiles, sortedFiles, batchStart, newProcessedFiles, uploadFrame>>

\* Promise.all is fulfilled and the timer of the round has fired.
EndBatch ==
    /\ uploadPc = "reading"
    /\ reading = {}
    /\ batchStart' = batchStart + CHUNK_SIZE
    /\ uploadPc' = "loop"
    /\ UNCHANGED <<rawFiles, sortedFiles, reading, newProcessedFiles, readFailed,
                   filesSet, uploadFrame>>

\* The loop is over: the finally block calls setFiles(newProcessedFiles).
FinishUpload ==
    /\ uploadPc = "loop"
    /\ batchStart > Len(sortedFiles)
    /\ filesSet' = TRUE
    /\ uploadPc' = "done"
    /\ UNCHANGED <<rawFiles, sortedFiles, batchStart, reading, newProcessedFiles,
                   readFailed, uploadFrame>>

UploadNext ==
    \/ SortUpload
    \/ StartBatch
    \/ ReadResolved
    \/ ReadRejected
    \/ EndBatch
    \/ FinishUpload

UploadSpec == UploadInit /\ [][UploadNext]_vars

\* ------------------------------------------------------------------------
\* handleGenerateSummaries among the handlers that change the file list
\* ------------------------------------------------------------------------
\* The files of two projects: a.ts is in both, with different contents.
SummaryUploads ==
    { [path |-> Chars("a.ts"), content |-> "v1"],
      [path |-> Chars("a.ts"), content |-> "v2"],
      [path |-> Chars("s/b.ts"), content |-> "b"],
      [path |-> Chars("s/c.ts"), content |-> "c"] }

\* The lists an upload can install.
SummaryLists ==
    LET new == { [path |-> r.path, content |-> r.content, summary |-> <<>>,
                  selected |-> TRUE] : r \in SummaryUploads }
    IN  UNION { { l \in [1..n -> new] :
                    \A i, j \in 1..n : l[i].path = l[j].path => i = j } : n \in 0..MaxUpload }

\* What summarizeCode(file.name, file.content, focus) resolves to: a text
\* made from the content it was given, or "" after an error.
summarizeCode(content) == { <<content>>, <<>> }

\* files.filter(f => f.selected && !f.isBinary && !f.summary)
SelectToSummarize(fs) ==
    SelectSeq(fs, LAMBDA f : f.selected /\ ~IsBinary(f) /\ f.summary = <<>>)

\* The paths of the tree nodes of a list: the files and the directory s.
NodePaths(fs) ==
    { fs[i].path : i \in 1..Len(fs) }
       \cup { Chars("s") : i \in { j \in 1..Len(fs) : StartsWith(fs[j].path, Chars("s/")) } }

summaryFrame == <<packVars, ignoreVars, treeVars, matchVars, appVars, toggleVars,
                  uploadVars, navVars,
    safeVars, swarmVars>>

SummaryInit ==
    /\ sumFiles = <<>>
    /\ isSummarizingFiles = FALSE
    /\ filesToSummarize = <<>>
    /\ batchInFlight = {}
    /\ PackAtRest
    /\ IgnoreAtRest
    /\ TreeAtRest
    /\ MatchAtRest
    /\ AppAtRest
    /\ ToggleAtRest
    /\ UploadAtRest
    /\ NavAtRest
    /\ SafeAtRest
    /\ SwarmAtRest

\* handleFilesSelected: setFiles(newProcessedFiles)
ReplaceFiles ==
    /\ sumFiles' \in SummaryLists
    /\ UNCHANGED <<isSummarizingFiles, filesToSummarize, batchInFlight, summaryFrame>>

\* A click on a checkbox of the tree: every node has checked = true, so
\* the call is toggleFile(node.path, false).
Deselect ==
    /\ \E path \in NodePaths(sumFiles) : sumFiles' = toggleFile(sumFiles, path, FALSE)
    /\ UNCHANGED <<isSummarizingFiles, filesToSummarize, batchInFlight, summaryFrame>>

\* handleResetFilters
SelectAll ==
    /\ Len(sumFiles) > 0
    /\ sumFiles' = handleResetFilters(sumFiles)
    /\ UNCHANGED <<isSummarizingFiles, filesToSummarize, batchInFlight, summaryFrame>>

\* handleGenerateSummaries up to its first await: the files to summarize
\* are captured and the calls of the first batch made.
StartSummaries ==
    /\ Len(sumFiles) > 0
    /\ ~isSummarizingFiles
    /\ LET captured == SelectToSummarize(sumFiles)
           first == IF Len(captured) < BATCH_SIZE THEN Len(captured) ELSE BATCH_SIZE
       IN  /\ isSummarizingFiles' = (Len(captured) > 0)
           /\ batchInFlight' = {captured[k] : k \in 1..first}
           /\ filesToSummarize' = SubSeq(captured, first + 1, Len(captured))
    /\ UNCHANGED <<sumFiles, summaryFrame>>

\* summarizeCode resolves for a captured file: its result is attached to
\* the file of the current list with the path of the captured file.
AttachSummary ==
    /\ \E file \in batchInFlight :
          /\ \E summary \in summarizeCode(file.content) :
                sumFiles' = attachSummary(sumFiles, file.path, summary)
          /\ batchInFlight' = batchInFlight \ {file}
          /\ isSummarizingFiles' = ~(batchInFlight = {file} /\ filesToSummarize = <<>>)
    /\ UNCHANGED <<filesToSummarize, summaryFrame>>

\* The wait between two batches is over: the calls of the next batch are
\* made.
SendNextBatch ==
    /\ isSummarizingFiles
    /\ batchInFlight = {}
    /\ filesToSummarize # <<>>
    /\ LET first == IF Len(filesToSummarize) < BATCH_SIZE THEN Len(filesToSummarize)
                    ELSE BATCH_SIZE
       IN  /\ batchInFlight' = {filesToSummarize[k] : k \in 1..first}
           /\ filesToSummarize' = SubSeq(filesToSummarize, first + 1, Len(filesToSummarize))
    /\ UNCHANGED <<sumFiles, isSummarizingFiles, summaryFrame>>

SummaryNext ==
    \/ ReplaceFiles
    \/ Deselect
    \/ SelectAll
    \/ StartSummaries
    \/ AttachSummary
    \/ SendNextBatch

SummarySpec == SummaryInit /\ [][SummaryNext]_vars

\* ------------------------------------------------------------------------
\* Chunk navigation (currentChunkIndex and its clamping effect)
\* ------------------------------------------------------------------------
\* The options of the token limit selector, scaled to the block estimates
\* of the files of the model (13 to 18 tokens a block), so that a list is
\* packed into one chunk, or into one chunk for every file.
NavLimits == {0, 14, 29, 42}

\* The lists an upload can install: r.md, a.ts and s/b.ts, selected.
NavUploads ==
    LET new == { f \in ProcessedFiles :
                   /\ f.selected
                   /\ f.path \in {Chars("r.md"), Chars("a.ts"), Chars("s/b.ts")} }
    IN  UNION { { l \in [1..n -> new] :
                    \A i, j \in 1..n : l[i].path = l[j].path => i = j } : n \in 0..MaxUpload }

\* The patterns applied in the filter panel.
NavFilters == { Chars("*.ts"), Chars("s/"), Chars("*.md\n*.ts") }

\* The memo chunks, as the string[] it is.
NavChunksOf(fs, limit) ==
    ChunkTexts(AppChunks(fs, limit, generateLLMOutput(fs, [includeSummaries |-> TRUE]),
                         [includeSummaries |-> TRUE]))
NavChunks == NavChunksOf(navFiles, navLimit)

\* chunks[currentChunkIndex] || ""
displayedContent ==
    IF currentChunkIndex + 1 \in 1..Len(NavChunks)
    THEN NavChunks[currentChunkIndex + 1]
    ELSE ""

Max(a, b) == IF a >= b THEN a ELSE b
Min(a, b) == IF a <= b THEN a ELSE b

\* The effect without its test: the index stays.
ClampIndex_Keep(index, length) == index

\* The index the effect leaves.
ClampIndex(index, length) == IF index >= length THEN Max(0, length - 1) ELSE index

navFrame == <<packVars, ignoreVars, treeVars, matchVars, appVars, toggleVars,
              uploadVars, summaryVars,
    safeVars, swarmVars>>

\* The state at the first render; the effect runs after it.
NavInit ==
    /\ navFiles = <<>>
    /\ navLimit = 0
    /\ currentChunkIndex = 0
    /\ effectPending = TRUE
    /\ lastClamp = <<>>
    /\ PackAtRest
    /\ IgnoreAtRest
    /\ TreeAtRest
    /\ MatchAtRest
    /\ AppAtRest
    /\ ToggleAtRest
    /\ UploadAtRest
    /\ SummaryAtRest
    /\ SafeAtRest
    /\ SwarmAtRest

\* A render after a state update: the effect is due when one of its
\* dependencies, chunks.length and currentChunkIndex, has changed.
NavRender ==
    effectPending' = \/ Len(NavChunksOf(navFiles', navLimit')) # Len(NavChunks)
                     \/ currentChunkIndex' # currentChunkIndex

\* The handlers run between renders, after the effects of the last one.
NavUpload ==
    /\ ~effectPending
    /\ navFiles' \in NavUploads
    /\ UNCHANGED <<navLimit, currentChunkIndex, lastClamp, navFrame>>
    /\ NavRender

NavDeselect ==
    /\ ~effectPending
    /\ \E path \in NodePaths(navFiles) : navFiles' = toggleFile(navFiles, path, FALSE)
    /\ UNCHANGED <<navLimit, currentChunkIndex, lastClamp, navFrame>>
    /\ NavRender

NavApplyFilters ==
    /\ ~effectPending
    /\ Len(navFiles) > 0
    /\ \E patternsInput \in NavFilters :
          navFiles' = handleApplyFilters(navFiles, patternsInput)
    /\ UNCHANGED <<navLimit, currentChunkIndex, lastClamp, navFrame>>
    /\ NavRender

NavResetFilters ==
    /\ ~effectPending
    /\ Len(navFiles) > 0
    /\ navFiles' = handleResetFilters(navFiles)
    /\ UNCHANGED <<navLimit, currentChunkIndex, lastClamp, navFrame>>
    /\ NavRender

NavSetTokenLimit ==
    /\ ~effectPending
    /\ Len(navFiles) > 0
    /\ navLimit' \in NavLimits
    /\ UNCHANGED <<navFiles, currentChunkIndex, lastClamp, navFrame>>
    /\ NavRender

\* The pagination bar is shown when tokenLimit > 0 and there is more than
\* one chunk; its buttons are disabled at the ends.
NextChunk ==
    /\ ~effectPending
    /\ Len(navFiles) > 0
    /\ navLimit > 0
    /\ Len(NavChunks) > 1
    /\ currentChunkIndex # Len(NavChunks) - 1
    /\ currentChunkIndex' = Min(currentChunkIndex + 1, Len(NavChunks) - 1)
    /\ UNCHANGED <<navFiles, navLimit, lastClamp, navFrame>>
    /\ NavRender

PrevChunk ==
    /\ ~effectPending
    /\ Len(navFiles) > 0
    /\ navLimit > 0
    /\ Len(NavChunks) > 1
    /\ currentChunkIndex # 0
    /\ currentChunkIndex' = Max(currentChunkIndex - 1, 0)
    /\ UNCHANGED <<navFiles, navLimit, lastClamp, navFrame>>
    /\ NavRender

\* The effect runs; a setCurrentChunkIndex that changes the index is
\* followed by another render.
ClampEffect ==
    /\ effectPending
    /\ currentChunkIndex' = ClampIndex(currentChunkIndex, Len(NavChunks))
    /\ lastClamp' = IF currentChunkIndex >= Len(NavChunks)
                    THEN <<currentChunkIndex, currentChunkIndex'>>
                    ELSE lastClamp
    /\ UNCHANGED <<navFiles, navLimit, navFrame>>
    /\ NavRender

NavNext ==
    \/ NavUpload
    \/ NavDeselect
    \/ NavApplyFilters
    \/ NavResetFilters
    \/ NavSetTokenLimit
    \/ NextChunk
    \/ PrevChunk
    \/ ClampEffect

NavSpec == NavInit /\ [][NavNext]_vars

\* ------------------------------------------------------------------------
\* SafeComponent registration (SafeComponent, SafeModeProvider)
\* ------------------------------------------------------------------------
\* The SafeComponents mounted while no file is loaded, in the order of the
\* tree, and whether the dependencies prop is passed to them; without it
\* the parameter default `dependencies = []` is a new array at every render.
Mounted == <<"comp-dropzone", "comp-filetree", "comp-emptystate">>
MountedIds == { Mounted[k] : k \in 1..Len(Mounted) }
PassesDependencies(id) == FALSE

\* .slice(0, 1000) of addLog.
LOG_CAP == 1000

RegisteredEntry(id) ==
    [level |-> "INFO", componentId |-> id, message |-> "Component registered in registry."]

\* setLogs(prev => [newLog, ...prev].slice(0, 1000))
addLog(prev, entry) ==
    LET all == <<entry>> \o prev
    IN  IF Len(all) > LOG_CAP THEN SubSeq(all, 1, LOG_CAP) ELSE all

\* The dependency list of the registering effect has changed since the
\* last render: id, name, category, minSafeModeLevel and registerComponent
\* keep their identity, dependencies keeps it only when it is a prop.
DepsChanged(id) == ~PassesDependencies(id)

safeFrame == <<packVars, ignoreVars, treeVars, matchVars, appVars, toggleVars,
               uploadVars, summaryVars, navVars, swarmVars>>

\* The state after the first commit: every effect is due.
SafeInit ==
    /\ registry = {}
    /\ logs = <<>>
    /\ effectDue = MountedIds
    /\ renderDue = FALSE
    /\ PackAtRest
    /\ IgnoreAtRest
    /\ TreeAtRest
    /\ MatchAtRest
    /\ AppAtRest
    /\ ToggleAtRest
    /\ UploadAtRest
    /\ SummaryAtRest
    /\ NavAtRest
    /\ SwarmAtRest

\* The registering effect of the first component, in tree order, whose
\* effect is due: registerComponent sets the registry entry if there is
\* none and adds a log entry in either case; setLogs always makes a new
\* array, so a render of the provider follows.
RegisterEffect ==
    /\ effectDue # {}
    /\ LET k == CHOOSE k \in 1..Len(Mounted) :
                   /\ Mounted[k] \in effectDue
                   /\ \A m \in 1..(k - 1) : Mounted[m] \notin effectDue
           id == Mounted[k]
       IN  /\ registry' = registry \cup {id}
           /\ logs' = addLog(logs, RegisteredEntry(id))
           /\ effectDue' = effectDue \ {id}
    /\ renderDue' = TRUE
    /\ UNCHANGED safeFrame

\* The provider renders with its new state; its context value is a new
\* object, so every SafeComponent renders too, and the effect of each one
\* whose dependency list has changed is due again.
ProviderRender ==
    /\ renderDue
    /\ effectDue = {}
    /\ renderDue' = FALSE
    /\ effectDue' = { id \in MountedIds : DepsChanged(id) }
    /\ UNCHANGED <<registry, logs, safeFrame>>

SafeNext ==
    \/ RegisterEffect
    \/ ProviderRender

SafeSpec == SafeInit /\ [][SafeNext]_vars

\* ------------------------------------------------------------------------
\* The agent swarm of ColosseumProvider.  The refs agentsRef, tasksRef and
\* contextRef are written by effects that run after every render and before
\* the next timer callback, so a tick reads the state of the last render.
\* The event log, and the message and progress of an agent, take no part
\* in the scheduling and are left out.

INITIAL_AGENTS == <<"a1", "a2", "a3", "a4", "a5">>

SwarmAgents ==
    [k \in 1..MaxAgents |->
        [id |-> INITIAL_AGENTS[k], status |-> "idle", currentTaskId |-> 0]]

\* The contexts startSwarm is called with: the dashboard's fullContext,
\* which is empty while no file is selected.
SwarmContexts == {"", "ctx"}

\* A task as startSwarm makes it; its id is its place in the list and
\* assignedAgentId is "" while undefined.
NewTask(id) == [id |-> id, status |-> "pending", assignedAgentId |-> ""]

AgentIndexes == 1..Len(agents)

IdleAgents == { k \in AgentIndexes : agents[k].status = "idle" }

PendingTasks == { i \in 1..Len(tasks) : tasks[i].status = "pending" }

\* currentTasks.find(t => t.status === 'pending')
FirstPending == CHOOSE i \in PendingTasks : \A j \in PendingTasks : i <= j

\* setAgents(prev => prev.map(a => a.id === agent.id ? {...a, status} : a))
SetStatus(as, k, status) == [as EXCEPT ![k].status = status]

swarmFrame == <<packVars, ignoreVars, treeVars, matchVars, appVars, toggleVars,
                uploadVars, summaryVars, navVars, safeVars>>

SwarmInit ==
    /\ agents = SwarmAgents
    /\ tasks = <<>>
    /\ isSwarmActive = FALSE
    /\ projectContext = "null"
    /\ decomposing = 0
    /\ thinkTimers = {}
    /\ executing = {}
    /\ recoverTimers = {}
    /\ execCalls = <<>>
    /\ PackAtRest
    /\ IgnoreAtRest
    /\ TreeAtRest
    /\ MatchAtRest
    /\ AppAtRest
    /\ ToggleAtRest
    /\ UploadAtRest
    /\ SummaryAtRest
    /\ NavAtRest
    /\ SafeAtRest

\* startSwarm up to its await; the dashboard offers it while the swarm is
\* not active.
StartSwarm ==
    /\ ~isSwarmActive
    /\ decomposing < MaxDecompose
    /\ \E context \in SwarmContexts : projectContext' = context
    /\ isSwarmActive' = TRUE
    /\ decomposing' = decomposing + 1
    /\ UNCHANGED <<agents, tasks, thinkTimers, executing, recoverTimers, execCalls,
                   swarmFrame>>

\* decomposeProject has resolved with n tasks, which are appended.
DecomposeResolved ==
    /\ decomposing > 0
    /\ \E n \in 0..(MaxTasks - Len(tasks)) :
           /\ tasks' = tasks \o [i \in 1..n |-> NewTask(Len(tasks) + i)]
           /\ execCalls' = execCalls \o [i \in 1..n |-> 0]
    /\ decomposing' = decomposing - 1
    /\ UNCHANGED <<agents, isSwarmActive, projectContext, thinkTimers, executing,
                   recoverTimers, swarmFrame>>

\* The catch of startSwarm.
DecomposeFailed ==
    /\ decomposing > 0
    /\ decomposing' = decomposing - 1
    /\ isSwarmActive' = FALSE
    /\ UNCHANGED <<agents, tasks, projectContext, thinkTimers, executing,
                   recoverTimers, execCalls, swarmFrame>>

stopSwarm ==
    /\ isSwarmActive
    /\ isSwarmActive' = FALSE
    /\ agents' = [k \in AgentIndexes |-> [agents[k] EXCEPT !.status = "idle"]]
    /\ UNCHANGED <<tasks, projectContext, decomposing, thinkTimers, executing,
                   recoverTimers, execCalls, swarmFrame>>

\* One callback of the two-second interval.  Every agent that is idle in
\* agentsRef.current looks for the first pending task of the same
\* tasksRef.current; the state updates are applied in the order of the
\* agents, so the last one's assignedAgentId stays.  A one-second timer
\* set by an earlier callback has fired before this one runs.
Tick ==
    /\ isSwarmActive
    /\ thinkTimers = {}
    /\ IF IdleAgents = {} \/ PendingTasks = {}
       THEN UNCHANGED <<agents, tasks, thinkTimers, executing, execCalls>>
       ELSE LET taskId == FirstPending
                picked == IdleAgents
                last == CHOOSE k \in picked : \A m \in picked : m <= k
                started == { <<k, taskId>> : k \in picked }
            IN  /\ tasks' = [tasks EXCEPT ![taskId] =
                        [@ EXCEPT !.status = "in_progress",
                                  !.assignedAgentId = agents[last].id]]
                /\ agents' = [k \in AgentIndexes |->
                        IF k \in picked
                        THEN [agents[k] EXCEPT !.status = "working",
                                               !.currentTaskId = taskId]
                        ELSE agents[k]]
                /\ IF projectContext \notin {"null", ""}
                   THEN /\ thinkTimers' = thinkTimers \cup started
                        /\ executing' = executing \cup started
                        /\ execCalls' = [execCalls EXCEPT ![taskId] =
                                             @ + Cardinality(picked)]
                   ELSE UNCHANGED <<thinkTimers, executing, execCalls>>
    /\ UNCHANGED <<isSwarmActive, projectContext, decomposing, recoverTimers,
                   swarmFrame>>

\* The callback of setTimeout(..., 1000).
ThinkTimerOf(e) ==
    /\ e \in thinkTimers
    /\ thinkTimers' = thinkTimers \ {e}
    /\ agents' = SetStatus(agents, e[1], "thinking")
    /\ UNCHANGED <<tasks, isSwarmActive, projectContext, decomposing, executing,
                   recoverTimers, execCalls, swarmFrame>>

ThinkTimer == \E e \in thinkTimers : ThinkTimerOf(e)

\* executeAgentTask has resolved.
ExecResolvedOf(e) ==
    /\ e \in executing
    /\ executing' = executing \ {e}
    /\ tasks' = [tasks EXCEPT ![e[2]].status = "completed"]
    /\ agents' = [agents EXCEPT ![e[1]] =
                      [@ EXCEPT !.status = "idle", !.currentTaskId = 0]]
    /\ UNCHANGED <<isSwarmActive, projectContext, decomposing, thinkTimers,
                   recoverTimers, execCalls, swarmFrame>>

ExecResolved == \E e \in executing : ExecResolvedOf(e)

\* executeAgentTask has rejected.
ExecRejectedOf(e) ==
    /\ e \in executing
    /\ executing' = executing \ {e}
    /\ tasks' = [tasks EXCEPT ![e[2]].status = "failed"]
    /\ agents' = SetStatus(agents, e[1], "error")
    /\ recoverTimers' = recoverTimers \cup {e}
    /\ UNCHANGED <<isSwarmActive, projectContext, decomposing, thinkTimers,
                   execCalls, swarmFrame>>

ExecRejected == \E e \in executing : ExecRejectedOf(e)

\* The callback of setTimeout(..., 3000).  It was set after the one-second
\* timers of the tick that picked its task, which have fired before it.
RecoverTimerOf(e) ==
    /\ e \in recoverTimers
    /\ \A f \in thinkTimers : f[2] # e[2]
    /\ recoverTimers' = recoverTimers \ {e}
    /\ agents' = SetStatus(agents, e[1], "idle")
    /\ UNCHANGED <<tasks, isSwarmActive, projectContext, decomposing, thinkTimers,
                   executing, execCalls, swarmFrame>>

RecoverTimer == \E e \in recoverTimers : RecoverTimerOf(e)

SwarmNext ==
    \/ StartSwarm
    \/ DecomposeResolved
    \/ DecomposeFailed
    \/ stopSwarm
    \/ Tick
    \/ ThinkTimer
    \/ ExecResolved
    \/ ExecRejected
    \/ RecoverTimer

SwarmSpec == SwarmInit /\ [][SwarmNext]_vars

\* The interval runs while the swarm is active, a timer that was set
\* fires, and a call of executeAgentTask settles.
SwarmFairness ==
    /\ WF_vars(Tick)
    /\ WF_vars(ThinkTimer)
    /\ WF_vars(ExecResolved \/ ExecRejected)
    /\ WF_vars(RecoverTimer)

SwarmFairSpec == SwarmSpec /\ SwarmFairness

Done == pc = "done"

\* The positions of the files whose blocks the chunks cs hold, in order.
RECURSIVE AllBlocks(_)
AllBlocks(cs) == IF cs = <<>> THEN <<>> ELSE Head(cs).blocks \o AllBlocks(Tail(cs))

\* The number of occurrences of x in the sequence s.
Occurrences(s, x) == Cardinality({k \in 1..Len(s) : s[k] = x})

\* The estimate of the block of the file at position i.
BlockTokens(i) == estimateTokens(FormattedBlocks[files[i], options])

\* The sum of the block estimates of the files at the positions in S.
RECURSIVE SumTokens(_)
SumTokens(S) ==
    IF S = {} THEN 0
    ELSE LET i == CHOOSE x \in S : TRUE IN BlockTokens(i) + SumTokens(S \ {i})

\* The positions of the selected files.
Selected == {i \in 1..Len(files) : files[i].selected}

\* The selected files in input order: the k-th is the one with k - 1
\* selected files before it.
SelectedInOrder ==
    [k \in 1..Cardinality(Selected) |->
        CHOOSE i \in Selected : Cardinality({j \in Selected : j < i}) = k - 1]

\* Root-level files are those whose path has no '/'.
IsRoot(i) == \A k \in 1..Len(files[i].path) : files[i].path[k] # "/"

\* The directory group of a selected file: the selected files with the same
\* immediate parent directory.
SameDir(i, j) == DirOf(files[i].path) = DirOf(files[j].path)
DirGroup(i) == {j \in Selected : SameDir(i, j)}

\* Case-insensitive lexicographic order of two directory keys.
CaseInsensitiveLeq(a, b) == LocaleCompare(ToLowerCase(a), ToLowerCase(b)) <= 0

\* A sequence of file positions lists the root files first.
RootFirst(seq) ==
    \A p, q \in 1..Len(seq) : (p < q /\ IsRoot(seq[q])) => IsRoot(seq[p])

\* A sequence of file positions is in the packer's order: root group first,
\* the other groups in case-insensitive order of their keys, each group
\* contiguous and in input order.
InPackOrder(seq) ==
    /\ RootFirst(seq)
    /\ \A p, q \in 1..Len(seq) :
          p < q =>
            /\ (~IsRoot(seq[p]) /\ ~IsRoot(seq[q]))
                  => CaseInsensitiveLeq(DirOf(files[seq[p]].path), DirOf(files[seq[q]].path))
            /\ SameDir(seq[p], seq[q])
                  => /\ seq[p] < seq[q]
                     /\ \A r \in p..q : SameDir(seq[p], seq[r])

\* The text made of the blocks, as generateLLMOutput writes them, of the
\* files at the positions of seq.
TextOf(seq) == Join([k \in 1..Len(seq) |-> AssembledBlocks[files[seq[k]], options]])

\* ------------------------------------------------------------------------
\* C1
\* ------------------------------------------------------------------------
\* C1 as stated: the chunks of generateChunks, concatenated in order, are
\* exactly the string generateLLMOutput returns for the same files and
\* options.
C1_RoundTrip == Done => Join(ChunkTexts(chunks)) = fullOutput

\* C1, amended: the concatenated chunks have the length of the string of
\* generateLLMOutput, and are exactly that string whenever the selected
\* files are listed in the packer's order (root files first, then the
\* directories in case-insensitive order of their keys, the files of a
\* directory next to each other).
C1_RoundTripInPackOrder ==
    Done =>
        /\ Len(Join(ChunkTexts(chunks))) = Len(fullOutput)
        /\ InPackOrder(SelectedInOrder) => Join(ChunkTexts(chunks)) = fullOutput

\* Three selected files in the packer's order, one of them carrying its
\* summary line, packed into more than one chunk.
C1_Witness ==
    /\ Done
    /\ InPackOrder(SelectedInOrder)
    /\ Cardinality(Selected) = 3
    /\ Len(chunks) >= 2
    /\ options.includeSummaries
    /\ \E i \in Selected : files[i].summary # <<>>

\* ------------------------------------------------------------------------
\* C2
\* ------------------------------------------------------------------------
\* C2: when generateChunks has returned, every selected file has its
\* complete formatted block in exactly one chunk, exactly once, no
\* unselected file has a block in any chunk, and the chunks consist of
\* nothing but these blocks.
C2_LosslessPacking ==
    Done =>
        /\ \A i \in 1..Len(files) :
              Occurrences(AllBlocks(chunks), i) = IF files[i].selected THEN 1 ELSE 0
        /\ \A c \in 1..Len(chunks) :
              chunks[c].text =
                 Join([k \in 1..Len(chunks[c].blocks) |->
                          FormattedBlocks[files[chunks[c].blocks[k]], options]])

\* A list with selected and unselected files, packed into several chunks.
C2_Witness ==
    /\ Done
    /\ Len(chunks) >= 2
    /\ Cardinality(Selected) >= 2
    /\ \E i \in 1..Len(files) : ~files[i].selected

\* ------------------------------------------------------------------------
\* C3
\* ------------------------------------------------------------------------
\* C3: every chunk pushed by generateChunks has a total block estimate of
\* at most tokenLimit unless it consists of exactly one block; so a block
\* whose own estimate exceeds tokenLimit is alone in its chunk, and a single
\* selected file gives exactly one chunk.
C3_ChunkBound ==
    /\ \A c \in 1..Len(chunks) :
          \/ TotalTokens(chunks[c].blocks, files, options) <= tokenLimit
          \/ Len(chunks[c].blocks) = 1
    /\ Done =>
          /\ \A c \in 1..Len(chunks) : \A k \in 1..Len(chunks[c].blocks) :
                BlockTokens(chunks[c].blocks[k]) > tokenLimit => Len(chunks[c].blocks) = 1
          /\ Cardinality(Selected) = 1 => Len(chunks) = 1

\* A chunk of two blocks that fill the limit exactly, followed by a chunk
\* that is one block larger than the limit.
C3_Witness ==
    /\ Done
    /\ Len(chunks) = 2
    /\ Len(chunks[1].blocks) = 2
    /\ TotalTokens(chunks[1].blocks, files, options) = tokenLimit
    /\ Len(chunks[2].blocks) = 1
    /\ TotalTokens(chunks[2].blocks, files, options) > tokenLimit

\* ------------------------------------------------------------------------
\* C4
\* ------------------------------------------------------------------------
\* C4: when generateChunks has returned, the blocks of every directory group
\* whose summed block estimate is at most tokenLimit are all in one and the
\* same chunk.
C4_NoPartialSplit ==
    Done =>
        \A i \in Selected :
            SumTokens(DirGroup(i)) <= tokenLimit
               => \E c \in 1..Len(chunks) :
                     \A j \in DirGroup(i) : Occurrences(chunks[c].blocks, j) = 1

\* A group of two files that fits the limit but not the space left after
\* the root group: it opens the second chunk.
C4_Witness ==
    /\ Done
    /\ Len(chunks) = 2
    /\ \E i \in Selected :
          /\ ~IsRoot(i)
          /\ Cardinality(DirGroup(i)) = 2
          /\ SumTokens(DirGroup(i)) <= tokenLimit
          /\ \A j \in DirGroup(i) : Occurrences(chunks[2].blocks, j) = 1
    /\ \E i \in Selected : IsRoot(i)

\* ------------------------------------------------------------------------
\* C5
\* ------------------------------------------------------------------------
\* The file whose block the packer appends next, and the space left.
AtBlock == AtGroup \/ pc = "split"
NextBlock == IF pc = "split" THEN groupFiles[fileIndex] ELSE groupFiles[1]
RemainingCapacity == tokenLimit - currentTokens

\* C5 as stated: whenever the estimate of the next file block equals the
\* remaining capacity of the current chunk, the block goes into the current
\* chunk: no chunk is closed before it is appended.
C5_BlockBoundary ==
    [][(AtBlock /\ BlockTokens(NextBlock) = RemainingCapacity) => chunks' = chunks]_vars

\* C5, amended: whenever the estimate of the unit being placed, a whole
\* directory group at the head of the for loop or a single file block while
\* an oversized group is split, equals the remaining capacity of the current
\* chunk, the unit is appended to the current chunk and no chunk is closed.
C5_UnitBoundary ==
    [][/\ (AtGroup /\ groupTotalTokens = RemainingCapacity)
            => /\ chunks' = chunks
               /\ currentChunk'.blocks = currentChunk.blocks \o groupFiles
       /\ (pc = "split" /\ BlockTokens(NextBlock) = RemainingCapacity)
            => /\ chunks' = chunks
               /\ currentChunk'.blocks = Append(currentChunk.blocks, NextBlock)]_vars

\* While a group is split, the next block fills a chunk that has content
\* exactly.
C5_Witness ==
    /\ pc = "split"
    /\ HasContent(currentChunk)
    /\ BlockTokens(NextBlock) = RemainingCapacity

\* ------------------------------------------------------------------------
\* C6
\* ------------------------------------------------------------------------
\* C6: read in order, the blocks of the returned chunks are grouped by
\* directory key, the root group first, the other groups in
\* case-insensitive lexicographic order of their keys, and the files of a
\* group in the order they have in the input list.
C6_BlockOrder == Done => InPackOrder(AllBlocks(chunks))

\* A root file, a file of "s" and a file of "S/l", listed in the input
\* in the reverse of the packer's order.
C6_Witness ==
    /\ Done
    /\ Len(files) = 3
    /\ Cardinality(Selected) = 3
    /\ ~IsRoot(1) /\ ~IsRoot(2) /\ IsRoot(3)
    /\ DirOf(files[1].path) = <<"S", "/", "l">>
    /\ DirOf(files[2].path) = <<"s">>
    /\ AllBlocks(chunks) = <<3, 2, 1>>

\* ------------------------------------------------------------------------
\* C7
\* ------------------------------------------------------------------------
\* The string of generateLLMOutput lists the root blocks first: it is the
\* text of the selected files in an order that does.
Orderings(S) ==
    {seq \in [1..Cardinality(S) -> S] : \A p, q \in 1..Cardinality(S) : seq[p] = seq[q] => p = q}
RootFirstOutput == \E seq \in Orderings(Selected) : RootFirst(seq) /\ TextOf(seq) = fullOutput

\* C7 as stated: in the first chunk of generateChunks and in the string of
\* generateLLMOutput, the block of every root-level selected file precedes
\* the block of every selected file of a non-root directory.
C7_RootFirstBoth ==
    Done => /\ chunks # <<>> => RootFirst(chunks[1].blocks)
            /\ RootFirstOutput

\* C7, amended: in the chunks of generateChunks, the first one and the
\* sequence as a whole, root-level blocks precede all blocks of non-root
\* directories; generateLLMOutput keeps the input order, so the same holds
\* of its string exactly when the input list has the selected root-level
\* files before the selected files of non-root directories.
C7_RootFirstChunks ==
    Done => /\ chunks # <<>> => RootFirst(chunks[1].blocks)
            /\ RootFirst(AllBlocks(chunks))
            /\ RootFirstOutput <=> RootFirst(SelectedInOrder)

\* A first chunk with a root block and a non-root block, from an input
\* that lists the non-root file first.
C7_Witness ==
    /\ Done
    /\ chunks # <<>>
    /\ \E p, q \in 1..Len(chunks[1].blocks) :
          /\ p < q
          /\ IsRoot(chunks[1].blocks[p])
          /\ ~IsRoot(chunks[1].blocks[q])
          /\ chunks[1].blocks[q] < chunks[1].blocks[p]

\* ------------------------------------------------------------------------
\* C8
\* ------------------------------------------------------------------------
\* The content of the block of f: the content of the file, after its
\* summary line when the file has a summary and includeSummaries is set.
SummaryLine(f) ==
    LET w == getCommentWrapper(f.name) IN
    w[1] \o " SUMMARY: " \o Str(Trim(f.summary)) \o (IF w[2] # "" THEN " " \o w[2] ELSE "") \o "\n"
BlockContent(f) ==
    IF f.summary # <<>> /\ options.includeSummaries THEN SummaryLine(f) \o f.content
    ELSE f.content
ExpectedBlock(f) ==
    "\n\n--- FILE START: " \o Str(f.path) \o " ---\n" \o BlockContent(f)
        \o "\n--- FILE END: " \o Str(f.path) \o " ---"

\* C8: once generateLLMOutput has returned, its string is made of exactly the blocks of the
\* selected files, in their input order, each block being
\* "\n\n--- FILE START: <path> ---\n", the content and
\* "\n--- FILE END: <path> ---", with nothing between two blocks.
C8_AssembledOutput ==
    pc # "assemble" =>
        fullOutput = Join([k \in 1..Len(SelectedInOrder) |->
                              ExpectedBlock(files[SelectedInOrder[k]])])

\* An unselected file between two selected ones, one of which carries its
\* summary line.
C8_Witness ==
    /\ pc # "assemble"
    /\ Len(files) = 3
    /\ files[1].selected /\ ~files[2].selected /\ files[3].selected
    /\ options.includeSummaries
    /\ files[3].summary # <<>>

\* ------------------------------------------------------------------------
\* C9
\* ------------------------------------------------------------------------
\* C9: a second invocation of generateChunks with the same files, limit and
\* options returns the chunk sequence of the first, and no step of an
\* invocation changes the file list, the limit or the options.
C9_Deterministic ==
    /\ [](Done /\ prevChunks # NoOutput => ChunkTexts(chunks) = prevChunks)
    /\ [][inputs' = inputs]_vars

\* The second invocation has returned several chunks.
C9_Witness ==
    /\ Done
    /\ prevChunks # NoOutput
    /\ Len(chunks) >= 2

\* ------------------------------------------------------------------------
\* C10
\* ------------------------------------------------------------------------
\* The number of steps an invocation may still take: one for each group and
\* each file of a group that are left, one to start and one to finish.
RECURSIVE GroupSteps(_)
GroupSteps(k) ==
    IF k > Len(sortedDirs) THEN 0
    ELSE 1 + Len(GroupFiles(dirGroups, sortedDirs[k])) + GroupSteps(k + 1)
MaxSteps == 2 * Len(files) + 4
StepsLeft ==
    CASE pc = "assemble" -> MaxSteps + 1
      [] pc = "start" -> MaxSteps
      [] pc = "group" -> 1 + GroupSteps(dirIndex)
      [] pc = "split" -> 2 + Len(groupFiles) - fileIndex + GroupSteps(dirIndex + 1)
      [] pc = "done" -> 0
Variant == StepsLeft + (IF prevChunks = NoOutput THEN MaxSteps + 2 ELSE 0)

\* A step of the for loop of generateChunks, its exit included.
LoopStep == AtomicFit \/ FreshFit \/ SplitStart \/ SplitFile \/ Finish

\* C10: generateChunks terminates and has no failure state: every step
\* lowers a natural-numbered variant, and inside the for loop a step is
\* possible until the function has returned (before the loop, StartEmpty
\* and StartPack cover both cases).  It returns the empty sequence exactly
\* when no file is selected, and otherwise every chunk it returns holds at
\* least one block and is made of complete blocks.
C10_Terminates ==
    /\ [][Variant' < Variant]_vars
    /\ [](Variant >= 0)
    /\ [](pc \in {"group", "split"} => ENABLED LoopStep)
    /\ [](Done =>
            /\ chunks = <<>> <=> Selected = {}
            /\ \A c \in 1..Len(chunks) :
                  /\ chunks[c].blocks # <<>>
                  /\ chunks[c].text =
                        Join([k \in 1..Len(chunks[c].blocks) |->
                                 ExpectedBlock(files[chunks[c].blocks[k]])]))

\* Three selected files and a limit below every block: three chunks.
C10_Witness ==
    /\ Done
    /\ Cardinality(Selected) = 3
    /\ \A i \in Selected : BlockTokens(i) > tokenLimit
    /\ Len(chunks) = 3

\* ------------------------------------------------------------------------
\* C11
\* ------------------------------------------------------------------------
\* The shape of scenario A: exactly three selected files, two at root level
\* and one in a directory; the two root blocks fit the limit together, the
\* three blocks do not.
ScenarioA ==
    \E i, j, k \in Selected :
        /\ i < j
        /\ Selected = {i, j, k}
        /\ IsRoot(i) /\ IsRoot(j) /\ ~IsRoot(k)
        /\ BlockTokens(i) + BlockTokens(j) <= tokenLimit
        /\ BlockTokens(i) + BlockTokens(j) + BlockTokens(k) > tokenLimit
        /\ BlockTokens(k) <= tokenLimit

\* C11: at the head of the group loop, a group that does not fit the space
\* left in a non-empty current chunk while its own total is at most
\* tokenLimit makes the current chunk the next element of the result,
\* unchanged, and becomes, whole and alone, the new current chunk; a group
\* that fits the space left is appended to the current chunk and nothing is
\* added to the result.  In the shape of scenario A the result is exactly
\* two chunks, the two root blocks in input order and the directory block.
C11_FreshChunkFit ==
    /\ [][(/\ AtGroup
           /\ HasContent(currentChunk)
           /\ currentTokens + groupTotalTokens > tokenLimit
           /\ groupTotalTokens <= tokenLimit)
          => (/\ chunks' = Append(chunks, currentChunk)
              /\ currentChunk'.blocks = groupFiles
              /\ currentChunk'.text =
                    Join([k \in 1..Len(groupFiles) |->
                             FormattedBlocks[files[groupFiles[k]], options]])
              /\ currentTokens' = groupTotalTokens
              /\ dirIndex' = dirIndex + 1)]_vars
    /\ [][(AtGroup /\ currentTokens + groupTotalTokens <= tokenLimit)
          => (/\ chunks' = chunks
              /\ currentChunk'.blocks = currentChunk.blocks \o groupFiles
              /\ dirIndex' = dirIndex + 1)]_vars
    /\ [](Done /\ ScenarioA
          => \E i, j, k \in Selected :
                /\ i < j /\ IsRoot(i) /\ IsRoot(j) /\ ~IsRoot(k)
                /\ [c \in 1..Len(chunks) |-> chunks[c].blocks] = << <<i, j>>, <<k>> >>)

\* Scenario A has been packed: r.md and a.ts in the first chunk, s/b.ts in
\* the second, the directory total being 14 against 2 tokens left.
C11_Witness ==
    /\ Done
    /\ ScenarioA
    /\ tokenLimit = 29
    /\ [i \in 1..Len(files) |-> Str(files[i].path)] = <<"r.md", "a.ts", "s/b.ts">>
    /\ Len(chunks) = 2
    /\ chunks[1].blocks = <<1, 2>>
    /\ chunks[2].blocks = <<3>>

\* ------------------------------------------------------------------------
\* C19
\* ------------------------------------------------------------------------
\* The path has a '/'-delimited segment that is a noise directory name: the
\* name stands between two ends, each the end of the path or a '/'.
NoiseSegment(path) ==
    \E i \in 1..Len(path), j \in 1..Len(path) :
        /\ i <= j
        /\ SubSeq(path, i, j) \in IGNORED_DIRS
        /\ (i = 1 \/ path[i - 1] = "/")
        /\ (j = Len(path) \/ path[j + 1] = "/")

\* The basename is on a denylist by name; its extension (from the last '.',
\* lowercased) is on the extension denylist.
DenylistedBasename(path) ==
    Basename(path) \in IGNORED_EXTENSIONS \cup {Chars(".DS_Store")}
DenylistedExtension(path) ==
    \E k \in 1..Len(Basename(path)) :
        /\ Basename(path)[k] = "."
        /\ \A m \in (k + 1)..Len(Basename(path)) : Basename(path)[m] # "."
        /\ ToLowerCase(SubSeq(Basename(path), k, Len(Basename(path))))
              \in IGNORED_EXTENSIONS

\* C19: isIgnored returns true for every path with a segment that is a noise
\* directory name, so for "node_modules/foo/bar.js"; it returns false for
\* every path with no such segment whose basename and extension are on no
\* denylist, so for "src/index.ts"; it returns a boolean for every path.
C19_IsIgnored ==
    ignoreResult # <<>> =>
        /\ ignoreResult[1] \in BOOLEAN
        /\ NoiseSegment(ignorePath) => ignoreResult[1]
        /\ (/\ ~NoiseSegment(ignorePath)
            /\ ~DenylistedBasename(ignorePath)
            /\ ~DenylistedExtension(ignorePath)) => ~ignoreResult[1]
        /\ ignorePath = Chars("node_modules/foo/bar.js") => ignoreResult[1]
        /\ ignorePath = Chars("src/index.ts") => ~ignoreResult[1]

\* isIgnored has returned true for a path whose only noise segment is its
\* last one.
C19_Witness ==
    /\ ignoreResult = <<TRUE>>
    /\ ignorePath = Chars("src/foo/node_modules")

\* ------------------------------------------------------------------------
\* C13
\* ------------------------------------------------------------------------
\* The cumulative path prefixes of a path: what precedes each '/', and the
\* path itself.
PathPrefixes(path) ==
    { SubSeq(path, 1, i - 1) : i \in {k \in 1..Len(path) : path[k] = "/"} }
        \cup {path}

\* buildFileTree has returned.
TreeBuilt == treePos > Len(treeFiles)

\* C13: at every point of buildFileTree no two nodes of the forest have the
\* same path, every cumulative path prefix of every file processed so far
\* is the path of exactly one node and every node is such a prefix; a node,
\* once created, stays as it is, at its place.
C13_OneNodePerPrefix ==
    /\ [](/\ \A m, n \in 1..Len(root) : root[m].path = root[n].path => m = n
          /\ \A f \in 1..(treePos - 1) :
                \A p \in PathPrefixes(treeFiles[f].path) :
                    Cardinality({n \in 1..Len(root) : root[n].path = p}) = 1
          /\ \A n \in 1..Len(root) :
                \E f \in 1..(treePos - 1) :
                    root[n].path \in PathPrefixes(treeFiles[f].path))
    /\ [][/\ Len(root') >= Len(root)
          /\ SubSeq(root', 1, Len(root)) = root]_vars

\* A path given twice, once more as the directory of another file: "a/b",
\* "a/b", "a/b/c" make three nodes.
C13_Witness ==
    /\ TreeBuilt
    /\ [f \in 1..Len(treeFiles) |-> Str(treeFiles[f].path)] = <<"a/b", "a/b", "a/b/c">>
    /\ Len(root) = 3

\* ------------------------------------------------------------------------
\* C14
\* ------------------------------------------------------------------------
\* The position in the input of the first file that has the node's path as
\* a path prefix.
FirstSeen(n) ==
    CHOOSE f \in 1..Len(treeFiles) :
        /\ root[n].path \in PathPrefixes(treeFiles[f].path)
        /\ \A g \in 1..(f - 1) : root[n].path \notin PathPrefixes(treeFiles[g].path)

\* The children list of a node (0: the root list), as positions in root.
Siblings(level) == SelectSeq([n \in 1..Len(root) |-> n], LAMBDA n : root[n].parent = level)

\* C14: in the forest that buildFileTree returns, of two nodes of one
\* sibling list the one whose path is first seen earlier in the input comes
\* first, whatever their names.
C14_FirstSeenOrder ==
    TreeBuilt =>
        \A level \in 0..Len(root) :
            \A a, b \in 1..Len(Siblings(level)) :
                a < b => FirstSeen(Siblings(level)[a]) < FirstSeen(Siblings(level)[b])

\* "z/y", "b", "a": the root list is z, b, a, against the alphabet.
C14_Witness ==
    /\ TreeBuilt
    /\ [f \in 1..Len(treeFiles) |-> Str(treeFiles[f].path)] = <<"z/y", "b", "a">>
    /\ [k \in 1..Len(Siblings(0)) |-> Str(root[Siblings(0)[k]].path)] = <<"z", "b", "a">>

\* ------------------------------------------------------------------------
\* C16
\* ------------------------------------------------------------------------
\* The text occurs in the path as a substring, letter case aside.
ContainsIgnoreCase(path, text) ==
    \E i \in 1..(Len(path) + 1) :
        /\ i + Len(text) - 1 <= Len(path)
        /\ ToLowerCase(SubSeq(path, i, i + Len(text) - 1)) = ToLowerCase(text)

\* The pattern has the form /body/flags and new RegExp(body, flags) throws.
InvalidExplicitRegex(p) ==
    /\ RegexMatch(p) # <<>>
    /\ NewRegExp(RegexMatch(p)[1],
                 IF RegexMatch(p)[2] # <<>> THEN RegexMatch(p)[2] ELSE <<"i">>).threw

\* C16: createPatternMatcher returns a matcher for every pattern, it never
\* throws; for a pattern /body/flags whose body or flags the RegExp
\* constructor rejects, the matcher returned tests whether the path contains
\* the text of the pattern, letter case aside.
C16_NeverRaises ==
    regex # <<>> =>
        /\ ~regex[1].threw
        /\ (InvalidExplicitRegex(pattern) /\ tested # <<>>)
              => tested[1].result = ContainsIgnoreCase(tested[1].path, pattern)

\* ------------------------------------------------------------------------
\* C18
\* ------------------------------------------------------------------------
\* The whole text matches the glob: '*' any character sequence, '?' any one
\* character, every other character itself, letter case aside.
RECURSIVE GlobMatches(_, _)
GlobMatches(glob, text) ==
    IF glob = <<>> THEN text = <<>>
    ELSE IF Head(glob) = "*"
         THEN GlobMatches(Tail(glob), text)
                 \/ (text # <<>> /\ GlobMatches(glob, Tail(text)))
    ELSE /\ text # <<>>
         /\ (Head(glob) = "?" \/ LowerChar(Head(glob)) = LowerChar(Head(text)))
         /\ GlobMatches(Tail(glob), Tail(text))

\* Some substring of the path matches the glob.
GlobContains(glob, path) ==
    \E i \in 1..(Len(path) + 1) :
        \E j \in (i - 1)..Len(path) : GlobMatches(glob, SubSeq(path, i, j))

\* The pattern is glob shorthand with containment semantics: not of the
\* form /body/flags, not ending in '/', not starting with '.'.
GlobShorthand(p) ==
    /\ RegexMatch(p) = <<>>
    /\ ~(p # <<>> /\ p[Len(p)] = "/")
    /\ ~(p # <<>> /\ p[1] = ".")

\* C18: the matcher compiled from a glob shorthand pattern with containment
\* semantics is a RegExp (the call does not throw) whose test on a path is
\* true exactly when some substring of the path matches the pattern read as
\* a glob; "*.test.ts" matches "src/util.test.ts" and not "src/util.ts".
C18_GlobContainment ==
    (regex # <<>> /\ GlobShorthand(pattern)) =>
        /\ ~regex[1].threw
        /\ tested # <<>> =>
              /\ tested[1].result = GlobContains(pattern, tested[1].path)
              /\ (pattern = Chars("*.test.ts") /\ tested[1].path = Chars("src/util.test.ts"))
                    => tested[1].result
              /\ (pattern = Chars("*.test.ts") /\ tested[1].path = Chars("src/util.ts"))
                    => ~tested[1].result

\* Scenario D, the matching half: "*.test.ts" has matched "src/util.test.ts".
C18_Witness ==
    /\ pattern = Chars("*.test.ts")
    /\ tested # <<>>
    /\ tested[1].path = Chars("src/util.test.ts")
    /\ tested[1].result

\* ------------------------------------------------------------------------
\* C12: packing disabled.  In every reachable state of the application the
\* chunks memo invokes generateChunks only with a token limit above zero,
\* and when the token limit is zero or less the chunk list is exactly the
\* one-element list holding the full assembled string.
\* ------------------------------------------------------------------------
C12_PackingDisabled ==
    /\ invocation # <<>> => invocation[1] > 0
    /\ tokenLimit <= 0 => /\ invocation = <<>>
                          /\ ChunkTexts(chunks) = <<fullOutput>>

\* The limit is back at "No Limit" with two files selected: the one chunk is
\* the full string of both.
C12_Witness ==
    /\ tokenLimit = 0
    /\ invocation = <<>>
    /\ Len(SelectedIndices(files)) >= 2
    /\ ChunkTexts(chunks) = <<generateLLMOutput(files, options)>>

\* ------------------------------------------------------------------------
\* C15: tree/selection consistency.  For every file node of the forest that
\* buildFileTree produces from the current file list, node.checked equals
\* the selected flag of the file with the same path, after any sequence of
\* toggle, apply-filter and reset-filter operations.
\* ------------------------------------------------------------------------
C15_CheckedMirrorsSelected ==
    \A n \in 1..Len(fileTree) :
        fileTree[n].isFile =>
            \E i \in 1..Len(files) :
                /\ files[i].path = fileTree[n].path
                /\ fileTree[n].checked = files[i].selected

\* ------------------------------------------------------------------------
\* C17: applying exclusion filters with a non-empty pattern list (globs and
\* /body/flags patterns with any flags) sets selected = false on every file
\* whose path at least one compiled matcher matches, whatever the position
\* of the file in the list, leaves every file that no matcher matches as it
\* was, and never sets selected = true.
\* ------------------------------------------------------------------------
\* The compiled matchers of an input.
MatchersOf(patternsInput) ==
    [k \in 1..Len(PatternsOf(patternsInput)) |->
        createPatternMatcher(PatternsOf(patternsInput)[k])]

\* At least one of the matchers, as compiled, matches the path.
MatchedBySome(matchers, path) ==
    \E k \in 1..Len(matchers) : RegExpTest(matchers[k], path).result

C17_ExcludesEveryMatch ==
    [][\A patternsInput \in FilterInputs :
          ( /\ ApplyFiltersWith(patternsInput)
            /\ Len(PatternsOf(patternsInput)) > 0
            /\ \A k \in 1..Len(MatchersOf(patternsInput)) :
                  ~MatchersOf(patternsInput)[k].threw )
          => /\ Len(files') = Len(files)
             /\ \A i \in 1..Len(files) :
                   files'[i] =
                      IF MatchedBySome(MatchersOf(patternsInput), files[i].path)
                      THEN [files[i] EXCEPT !.selected = FALSE]
                      ELSE files[i]]_vars

\* ------------------------------------------------------------------------
\* C20: attaching an externally generated summary to a file is a field
\* update that does not by itself re-trigger chunking.
\* As stated: after a summary is attached, the chunk sequence shown to the
\* user is the one shown before.
\* ------------------------------------------------------------------------
C20_AttachKeepsChunks ==
    [][SummaryResolved => ChunkTexts(chunks') = ChunkTexts(chunks)]_vars

\* C20 as the code has it: attaching a summary changes nothing but the
\* summary field of the file with the resolved path (the order, the other
\* fields, the token limit and the options stay), and the chunks memo is
\* recomputed over the updated list in the render that follows: the chunk
\* sequence shown differs from the one before exactly when the summary is
\* not empty, its file is selected and includeSummaries is set.
C20_AttachRepacks ==
    [][SummaryResolved =>
          /\ Len(files') = Len(files)
          /\ tokenLimit' = tokenLimit
          /\ options' = options
          /\ \A i \in 1..Len(files) :
                /\ [files'[i] EXCEPT !.summary = files[i].summary] = files[i]
                /\ files'[i] # files[i] => files[i].path \in inFlight \ inFlight'
          /\ chunks' = AppChunks(files', tokenLimit, generateLLMOutput(files', options), options)
          /\ ChunkTexts(chunks') # ChunkTexts(chunks)
                <=> \E i \in 1..Len(files) :
                       /\ files'[i] # files[i]
                       /\ files[i].selected
                       /\ options.includeSummaries]_vars

\* The files as they were before any summary was attached.
Unsummarized(fs) == [i \in 1..Len(fs) |-> [fs[i] EXCEPT !.summary = <<>>]]

\* A summary has been attached to a selected file while a limit is set and
\* summaries are included, the run still going on: the chunks shown are not
\* those of the list without the summary.
C20_Witness ==
    /\ summarizing
    /\ tokenLimit > 0
    /\ options.includeSummaries
    /\ \E i \in 1..Len(files) : files[i].selected /\ files[i].summary # <<>>
    /\ ChunkTexts(chunks) # ChunkTexts(generateChunks(Unsummarized(files), tokenLimit, options))

\* ------------------------------------------------------------------------
\* C21: every entry of the ignore denylist is effective.  For each entry e
\* of IGNORED_EXTENSIONS, the lock-file entries "package-lock.json",
\* "yarn.lock" and "pnpm-lock.yaml" included, isIgnored returns true for a
\* path whose basename is e or ends with e, in any case of the letters.
\* ------------------------------------------------------------------------
C21_EveryEntryEffective ==
    ignoreResult # <<>> =>
        \A e \in IGNORED_EXTENSIONS :
            EndsWith(ToLowerCase(Basename(ignorePath)), e) => ignoreResult[1]

\* ------------------------------------------------------------------------
\* C29: the tree structure follows the paths.  In the forest buildFileTree
\* returns for a list of unique paths, every child node's path is its
\* parent's path + "/" + the child's name, every root node's path has a
\* single segment, and every input file's path is the path of a node with
\* isFile true; also when one input path is a "/"-prefix of another.
\* ------------------------------------------------------------------------
UniquePaths(fs) == \A i, j \in 1..Len(fs) : fs[i].path = fs[j].path => i = j

C29_StructureFollowsPaths ==
    (TreeBuilt /\ UniquePaths(treeFiles)) =>
        /\ \A n \in 1..Len(root) :
              IF root[n].parent = 0
              THEN Len(Split(root[n].path, "/")) = 1
              ELSE root[n].path
                      = root[root[n].parent].path \o <<"/">> \o root[n].name
        /\ \A i \in 1..Len(treeFiles) :
              \E n \in 1..Len(root) :
                  root[n].path = treeFiles[i].path /\ root[n].isFile

\* ------------------------------------------------------------------------
\* C23: toggleFile(path, checked) sets selected = checked for exactly the
\* file whose path equals path and the files whose path starts with
\* path + "/"; the selected flag of every other file, and the path, content,
\* summary and list position of every file, are unchanged.
\* ------------------------------------------------------------------------
\* The path is the file's own or that of a directory above it.
Covers(path, filePath) ==
    \/ filePath = path
    \/ /\ Len(filePath) > Len(path)
       /\ SubSeq(filePath, 1, Len(path)) = path
       /\ filePath[Len(path) + 1] = "/"

C23_ToggleFrame ==
    [][\A path \in TogglePaths, checked \in BOOLEAN :
          ToggleCallWith(path, checked) =>
             /\ Len(toggleFiles') = Len(toggleFiles)
             /\ \A i \in 1..Len(toggleFiles) :
                   /\ toggleFiles'[i].path = toggleFiles[i].path
                   /\ toggleFiles'[i].name = toggleFiles[i].name
                   /\ toggleFiles'[i].content = toggleFiles[i].content
                   /\ toggleFiles'[i].summary = toggleFiles[i].summary
                   /\ toggleFiles'[i].selected =
                         IF Covers(path, toggleFiles[i].path) THEN checked
                         ELSE toggleFiles[i].selected]_vars

\* toggleFile("s", true) has been applied to a list with a file outside s
\* that is not selected and a file with a summary under s: the files under
\* s are selected, the file outside is not.
C23_Witness ==
    /\ toggled = <<Chars("s"), TRUE>>
    /\ Len(toggleFiles) = 3
    /\ \E i \in 1..3 : toggleFiles[i].path = Chars("a.ts") /\ ~toggleFiles[i].selected
    /\ \E i \in 1..3 : /\ toggleFiles[i].path = Chars("s/c.html")
                       /\ toggleFiles[i].selected
                       /\ toggleFiles[i].summary # <<>>

\* ------------------------------------------------------------------------
\* C24: selection through the tree is reversible.  After a file (or
\* directory) has been deselected by a click on its checkbox in the file
\* tree, a click on the same checkbox invokes toggleFile(path, true) and the
\* file (every file under the directory) is selected again.
\* ------------------------------------------------------------------------
\* The positions of the files a node stands for.
FilesUnder(fs, path) == { i \in 1..Len(fs) : Covers(path, fs[i].path) }

\* What a click on the checkbox of node n leaves of the file list.
AfterClick(n) == toggleFile(files, fileTree[n].path, ~(fileTree[n].checked # FALSE))

C24_ClickReselects ==
    \A n \in 1..Len(fileTree) :
        ( /\ FilesUnder(files, fileTree[n].path) # {}
          /\ \A i \in FilesUnder(files, fileTree[n].path) : ~files[i].selected )
        => \A i \in FilesUnder(files, fileTree[n].path) : AfterClick(n)[i].selected

\* ------------------------------------------------------------------------
\* C25: after an upload (handleFilesSelected) has completed without a read
\* error, the file list holds exactly the raw files that are not ignored,
\* each once, in ascending order of their paths (the order the raw files
\* were sorted into), whatever the order in which the reads of a batch
\* complete.
\* ------------------------------------------------------------------------
\* The files kept, in the order of the sort.
KeptInOrder ==
    LET kept == SelectSeq(sortedFiles, LAMBDA f : ~isIgnored(f.path))
    IN  [k \in 1..Len(kept) |-> Processed(kept[k])]

C25_UploadInPathOrder ==
    (uploadPc = "done" /\ filesSet /\ ~readFailed) => newProcessedFiles = KeptInOrder

\* ------------------------------------------------------------------------
\* C30: summaries are attached only to the file they were generated from.
\* In every reachable state a file's summary was computed from that file's
\* current content, also when the user toggles selections or replaces the
\* file set with a new upload while the generation is in flight (and
\* attaching a summary changes no file's selected flag).
\* ------------------------------------------------------------------------
C30_SummaryOfOwnContent ==
    \A i \in 1..Len(sumFiles) :
        sumFiles[i].summary # <<>> => sumFiles[i].summary = <<sumFiles[i].content>>

\* ------------------------------------------------------------------------
\* C26: chunk navigation stays in range.  After any sequence of next and
\* previous clicks, token limit changes, selection changes and filter
\* operations, once the clamping effect has run, currentChunkIndex is at
\* least 0 and at most max(0, chunks.length - 1); and the displayed content
\* is always either chunks[currentChunkIndex] or the empty string.
\* ------------------------------------------------------------------------
C26_IndexInRange ==
    /\ ~effectPending =>
          /\ 0 <= currentChunkIndex
          /\ currentChunkIndex <= Max(0, Len(NavChunks) - 1)
    /\ \/ displayedContent = ""
       \/ /\ currentChunkIndex + 1 \in 1..Len(NavChunks)
          /\ displayedContent = NavChunks[currentChunkIndex + 1]

\* The effect has brought the index from the third chunk back to the first,
\* the only one left.
C26_Witness ==
    /\ ~effectPending
    /\ lastClamp = <<2, 0>>
    /\ currentChunkIndex = 0
    /\ Len(NavChunks) = 1

\* ------------------------------------------------------------------------
\* C22: a SafeComponent registers itself once on mount.  After the
\* application has mounted and while no user operation occurs,
\* registerComponent is not invoked again and the diagnostic log stops
\* growing: it holds at most one "Component registered in registry." entry
\* for every mounted component id.
\* ------------------------------------------------------------------------
C22_RegistersOnce ==
    \A id \in MountedIds :
        Cardinality({ i \in 1..Len(logs) : logs[i] = RegisteredEntry(id) }) <= 1

\* ------------------------------------------------------------------------
\* C27: a pending task is picked up by at most one agent: no two agents
\* have the same currentTaskId, and executeAgentTask is called at most once
\* for a task.
C27_ExclusiveAssignment ==
    /\ \A k, m \in AgentIndexes :
           k # m /\ agents[k].currentTaskId # 0
               => agents[k].currentTaskId # agents[m].currentTaskId
    /\ \A i \in 1..Len(execCalls) : execCalls[i] <= 1

\* ------------------------------------------------------------------------
\* C28: an agent that is executing a task, or is 'thinking' or in 'error'
\* after one, is idle again at some later time.
Busy(k) ==
    \/ agents[k].status \in {"thinking", "error"}
    \/ agents[k].status = "working" /\ \E e \in executing : e[1] = k

C28_EventuallyIdle ==
    \A k \in 1..MaxAgents : Busy(k) ~> (agents[k].status = "idle")

====
